---- MODULE Spec2Model ----
(***************************************************************************)
(* QR capture pipeline of prateek-arvo/test: per-frame QR localisation,    *)
(* stability window, axis-aligned crop, centre patch and the capture       *)
(* orchestration of the scanner components (continuous zxing scan with and  *)
(* without stability tracking, OpenCV requestAnimationFrame loop).          *)
(*                                                                         *)
(* Numbers: pixel coordinates returned by the detectors are floating point.*)
(* They are modelled exactly as rationals with denominator Scale (a corner  *)
(* coordinate c stands for c / Scale pixels); ratios such as 0.05 or 0.18   *)
(* are kept as hundredths.  Math.floor is \div, Math.round(s / n) is        *)
(* (2s + n) \div 2n.                                                       *)
(***************************************************************************)
EXTENDS Integers, Sequences, FiniteSets, TLC

\* ------------------------------------------------------------ constants
STABILITY_FRAMES == 4
POSITION_TOL_PX == 8
\* SIZE_TOL_RATIO = 0.18, in hundredths
SIZE_TOL_PCT == 18
\* PADDING_RATIO = 0.05, in hundredths
PADDING_PCT == 5
\* the literal 0.15 of the one-shot scanner, in hundredths
PADDING_PCT_ONESHOT == 15
\* BOX_FRACTION = 0.5, in hundredths
BOX_FRACTION_PCT == 50
\* CENTER_FRACTION = 0.4, in hundredths
CENTER_FRACTION_PCT == 40
\* CENTER_FRACTION = 0.5 of the one-shot scanner, in hundredths
CENTER_FRACTION_PCT_ONESHOT == 50
\* frac = 0.36 of the perspective-normalising scanner, in hundredths
CENTER_FRACTION_PCT_WARP == 36
\* CENTER_FRACTION = 0.36 of the button-triggered capture, in hundredths
CENTER_FRACTION_PCT_BUTTON == 36
\* qrSize: side of the canonical square of the perspective-normalising scanner
QR_SIZE == 512

\* ------------------------------------------------------------ bounds
\* corner coordinates are multiples of 1/Scale pixel
Scale == 2
\* largest corner coordinate (in 1/Scale pixels) fed to the crop functions
MaxCoord == 5
\* largest frame side fed to the crop functions
MaxFrame == 3
\* largest centre shift tried on a stability window
MaxShift == 14
\* frames delivered to one scanning session
MaxFrames == 8
\* side of the video frame of a scanning session
VideoSide == 40
\* frames delivered to one session in which the extraction may fail
MaxFaultFrames == 5
\* largest displacement of a target corner of the homography, in pixels
MaxSkew == 1
\* side of the target symbol of the homography, in pixels
TargetSide == 1
\* largest side of the canonical square of the homography, in pixels
MaxCanon == 3
\* largest side of an image fed to the enhancement filters, in pixels
MaxImage == 4
\* number of test images of each size
MaxSeed == 2
\* distance from a frame edge up to which symbol corners are tried at lock
MaxEdge == 2
\* largest side of a crop fed to the patch sampler
MaxCrop == 12
\* clicks on the capture button in one session
MaxClicks == 3

\* ------------------------------------------------------------ arithmetic
Min2(a, b) == IF a < b THEN a ELSE b
Max2(a, b) == IF a > b THEN a ELSE b
Abs(a) == IF a < 0 THEN -a ELSE a

\* Math.round(num / den) for den > 0: halves round towards +infinity
Round(num, den) == (2 * num + den) \div (2 * den)

\* Math.min(...xs) and Math.max(...xs) over a non-empty sequence
RECURSIVE SeqMin(_)
SeqMin(xs) ==
  IF Len(xs) = 1 THEN xs[1] ELSE Min2(xs[1], SeqMin(Tail(xs)))

RECURSIVE SeqMax(_)
SeqMax(xs) ==
  IF Len(xs) = 1 THEN xs[1] ELSE Max2(xs[1], SeqMax(Tail(xs)))

RECURSIVE SeqSum(_)
SeqSum(xs) == IF xs = <<>> THEN 0 ELSE xs[1] + SeqSum(Tail(xs))

\* const clamp = (val, min, max) => Math.max(min, Math.min(max, val))
clamp(val, lo, hi) == Max2(lo, Min2(hi, val))

\* the value null of a box- or image-valued variable
NullBox == [x |-> -1, y |-> -1, w |-> -1, h |-> -1]

Box(x, y, w, h) == [x |-> x, y |-> y, w |-> w, h |-> h]

\* ------------------------------------------------------------ region extractor
\* pts is a sequence of corner points <<x, y>> in 1/Scale pixels
PtsX(pts) == [i \in DOMAIN pts |-> pts[i][1]]
PtsY(pts) == [i \in DOMAIN pts |-> pts[i][2]]

\* Math.floor(lo - pad), pad = pct/100 * m, lo and m in 1/Scale pixels
FloorLowPad(lo, m, pct) == (100 * lo - pct * m) \div (100 * Scale)
\* the size with the padding added on one side only
FloorSizeOnePad(size, m, pct) == (100 * size + pct * m) \div (100 * Scale)
\* Math.floor(size + pad * 2)
FloorSizePad(size, m, pct) == (100 * size + 2 * pct * m) \div (100 * Scale)

\* right/bottom edge of the crop: Math.min(frame - crop, floor(size + 2 pad))
CropExtentNoClamp(frame, crop, size, m, pct) == FloorSizePad(size, m, pct)
CropExtent(frame, crop, size, m, pct) ==
  Min2(frame - crop, FloorSizePad(size, m, pct))

\* the padded crop of the continuous scanners (Math.max(0, ..) / Math.min(vw - x, ..))
CropBox(pts, vw, vh, pct) ==
  LET minX == SeqMin(PtsX(pts))
      maxX == SeqMax(PtsX(pts))
      minY == SeqMin(PtsY(pts))
      maxY == SeqMax(PtsY(pts))
      qrW == maxX - minX
      qrH == maxY - minY
      m == Max2(qrW, qrH)
      cropX == Max2(0, FloorLowPad(minX, m, pct))
      cropY == Max2(0, FloorLowPad(minY, m, pct))
  IN Box(cropX, cropY,
         CropExtent(vw, cropX, qrW, m, pct),
         CropExtent(vh, cropY, qrH, m, pct))

\* a fallback square whose side is rounded up
FallbackBoxCeil(vw, vh) ==
  LET size == (Min2(vw, vh) * BOX_FRACTION_PCT + 99) \div 100
  IN Box((vw - size) \div 2, (vh - size) \div 2, size, size)

\* fallback of the one-shot scanner: centred square of half the short side
FallbackBox(vw, vh) ==
  LET size == (Min2(vw, vh) * BOX_FRACTION_PCT) \div 100
  IN Box((vw - size) \div 2, (vh - size) \div 2, size, size)

\* crop of the one-shot scanner: corners if at least 3, else the fallback
CropOrFallback(pts, vw, vh) ==
  IF Len(pts) >= 3 THEN CropBox(pts, vw, vh, PADDING_PCT_ONESHOT)
  ELSE FallbackBox(vw, vh)

\* crop of handleCapture, in the decode space (ROI or full frame)
CropBoxClamp(corners, sourceWidth, sourceHeight) ==
  IF Len(corners) >= 3 THEN
    LET minX == SeqMin(PtsX(corners))
        maxX == SeqMax(PtsX(corners))
        minY == SeqMin(PtsY(corners))
        maxY == SeqMax(PtsY(corners))
        boxW == maxX - minX
        boxH == maxY - minY
        m == Max2(boxW, boxH)
        x == clamp(FloorLowPad(minX, m, PADDING_PCT), 0, sourceWidth - 1)
        y == clamp(FloorLowPad(minY, m, PADDING_PCT), 0, sourceHeight - 1)
    IN Box(x, y,
           clamp(FloorSizePad(boxW, m, PADDING_PCT), 1, sourceWidth - x),
           clamp(FloorSizePad(boxH, m, PADDING_PCT), 1, sourceHeight - y))
  ELSE FallbackBox(sourceWidth, sourceHeight)

\* the extractor of each component
ExtractBox(kind, pts, fw, fh) ==
  CASE kind \in {"zxing", "opencv"} -> CropBox(pts, fw, fh, PADDING_PCT)
    [] kind = "oneshot" -> CropOrFallback(pts, fw, fh)
    [] kind = "button" -> CropBoxClamp(pts, fw, fh)

\* coordinates of a source rectangle are kept in 1/FineUnit pixels
FineUnit == 100 * Scale

\* drawImage(v, x, y, w, h, 0, 0, w, h) into a canvas of width w and height h:
\* the source rectangle (in 1/FineUnit pixels) and the size of the canvas (in
\* pixels); the canvas truncates its size, the drawing is 1:1 and cut at the
\* canvas edge
Rect(x, y, w, h) ==
  [x |-> x, y |-> y, w |-> w, h |-> h, cw |-> w \div FineUnit, ch |-> h \div FineUnit]

\* crop of the one-shot scanner that floors the box
FlooredCrop(pts, vw, vh) ==
  LET b == CropOrFallback(pts, vw, vh)
  IN Rect(FineUnit * b.x, FineUnit * b.y, FineUnit * b.w, FineUnit * b.h)

\* crop of the one-shot scanner that does not floor: x = Math.max(0, x - pad),
\* w = Math.min(vw - x, w + pad * 2), or the square of side
\* Math.min(vw, vh) * 0.5 at ((vw - size) / 2, (vh - size) / 2)
FractionalCrop(pts, vw, vh) ==
  IF Len(pts) >= 3 THEN
    LET minX == SeqMin(PtsX(pts))
        maxX == SeqMax(PtsX(pts))
        minY == SeqMin(PtsY(pts))
        maxY == SeqMax(PtsY(pts))
        qrW == maxX - minX
        qrH == maxY - minY
        pad == PADDING_PCT_ONESHOT * Max2(qrW, qrH)
        x == Max2(0, 100 * minX - pad)
        y == Max2(0, 100 * minY - pad)
    IN Rect(x, y, Min2(FineUnit * vw - x, 100 * qrW + 2 * pad),
                  Min2(FineUnit * vh - y, 100 * qrH + 2 * pad))
  ELSE
    LET size == Scale * BOX_FRACTION_PCT * Min2(vw, vh)
    IN Rect((FineUnit * vw - size) \div 2, (FineUnit * vh - size) \div 2, size, size)

CropOf(kind, pts, vw, vh) ==
  IF kind = "fractional" THEN FractionalCrop(pts, vw, vh) ELSE FlooredCrop(pts, vw, vh)

\* the patch with its side rounded to the nearest pixel
CenterPatchRoundSize(w, h, pct) ==
  LET patchSize == Round(Min2(w, h) * pct, 100)
  IN Box((w \div 2) - (patchSize \div 2), (h \div 2) - (patchSize \div 2),
         patchSize, patchSize)

\* the patch with its corner, not its middle, on the middle of the crop
CenterPatchAtCentre(w, h, pct) ==
  LET patchSize == (Min2(w, h) * pct) \div 100
  IN Box(w \div 2, h \div 2, patchSize, patchSize)

\* ------------------------------------------------------------ patch sampler
\* centre patch of captureQrRegion, in the coordinates of the w x h crop
CenterPatch(w, h, pct) ==
  LET baseSize == Min2(w, h)
      patchSize == (baseSize * pct) \div 100
      cx == w \div 2
      cy == h \div 2
      px0 == cx - (patchSize \div 2)
      py0 == cy - (patchSize \div 2)
      px1 == IF px0 < 0 THEN 0 ELSE px0
      py1 == IF py0 < 0 THEN 0 ELSE py0
      px == IF px1 + patchSize > w THEN w - patchSize ELSE px1
      py == IF py1 + patchSize > h THEN h - patchSize ELSE py1
  IN Box(px, py, patchSize, patchSize)

\* coordinates of a sampled region are kept in 1/PatchUnit pixels
PatchUnit == 2 * 100

\* the source rectangle of a patch (in 1/PatchUnit pixels) and the side of the
\* canvas it is drawn into (in pixels)
Region(x, y, side, canvas) == [x |-> x, y |-> y, side |-> side, canvas |-> canvas]

\* the centre patch of the scanners that floor the patch size
FlooredPatch(w, h, pct) ==
  LET b == CenterPatch(w, h, pct)
  IN Region(PatchUnit * b.x, PatchUnit * b.y, PatchUnit * b.w, b.w)

\* the centre patch of the scanner that does not: cropSize36 = 0.36 * baseSize
\* and x36 = cx - cropSize36 / 2 stay fractional, assigning cropSize36 to
\* canvas.width truncates it, and the patch is drawn 1:1 and cut at the canvas
\* edge
FractionalPatch(w, h, pct) ==
  LET baseSize == Min2(w, h)
      cropSize == 2 * pct * baseSize
      x0 == 100 * w - pct * baseSize
      y0 == 100 * h - pct * baseSize
      x1 == IF x0 < 0 THEN 0 ELSE x0
      y1 == IF y0 < 0 THEN 0 ELSE y0
      x2 == IF x1 + cropSize > PatchUnit * w THEN PatchUnit * w - cropSize ELSE x1
      y2 == IF y1 + cropSize > PatchUnit * h THEN PatchUnit * h - cropSize ELSE y1
  IN Region(x2, y2, cropSize, (pct * baseSize) \div 100)

PatchOf(kind, w, h, pct) ==
  IF kind = "fractional" THEN FractionalPatch(w, h, pct) ELSE FlooredPatch(w, h, pct)

\* ------------------------------------------------------------ homography
\* numbers of the solver are exact fractions <<numerator, denominator>> in
\* lowest terms with a positive denominator
RECURSIVE Gcd(_, _)
Gcd(a, b) == IF b = 0 THEN a ELSE Gcd(b, a % b)

Rat(n, d) ==
  LET g == Gcd(Abs(n), Abs(d))
      s == IF d < 0 THEN -1 ELSE 1
  IN <<(s * n) \div g, (s * d) \div g>>

RInt(k) == <<k, 1>>

RAdd(a, b) ==
  LET g == Gcd(a[2], b[2])
  IN Rat(a[1] * (b[2] \div g) + b[1] * (a[2] \div g), (a[2] \div g) * b[2])

RSub(a, b) == RAdd(a, <<-b[1], b[2]>>)

RMul(a, b) ==
  LET g1 == Gcd(Abs(a[1]), b[2])
      g2 == Gcd(Abs(b[1]), a[2])
  IN Rat((a[1] \div g1) * (b[1] \div g2), (a[2] \div g2) * (b[2] \div g1))

\* a / b for b # 0
RDiv(a, b) == RMul(a, IF b[1] < 0 THEN <<-b[2], -b[1]>> ELSE <<b[2], b[1]>>)

\* Math.abs(a) < Math.abs(b)
AbsLess(a, b) == Abs(a[1]) * b[2] < Abs(b[1]) * a[2]

\* Math.abs(a) < 1e-9
Tiny(a) == Abs(a[1]) <= (a[2] - 1) \div 1000000000

\* the two rows of A for one correspondence (xs, ys) -> (xd, yd)
HomographyRows(s, d) ==
  << <<RInt(s[1]), RInt(s[2]), RInt(1), RInt(0), RInt(0), RInt(0),
       RInt(-s[1] * d[1]), RInt(-s[2] * d[1]), RInt(d[1])>>,
     <<RInt(0), RInt(0), RInt(0), RInt(s[1]), RInt(s[2]), RInt(1),
       RInt(-s[1] * d[2]), RInt(-s[2] * d[2]), RInt(d[2])>> >>

\* row with the largest entry in column col among rows row .. m, the first
\* of them on a tie
RECURSIVE SelectPivot(_, _, _, _)
SelectPivot(A, col, sel, i) ==
  IF i > Len(A) THEN sel
  ELSE SelectPivot(A, col, IF AbsLess(A[sel][col], A[i][col]) THEN i ELSE sel, i + 1)

\* elimination that clears the column only below the pivot
RowsBelow(m, row) == (row + 1) .. m

\* rows the pivot row is subtracted from: all the others
RowsToClear(m, row) == (1 .. m) \ {row}

\* for (j = col; j < n; j++) A[row][j] /= div
DividePivotEntry(r, col, j) == IF j >= col THEN RDiv(r[j], r[col]) ELSE r[j]

DividePivotRow(r, col) ==
  <<DividePivotEntry(r, col, 1), DividePivotEntry(r, col, 2), DividePivotEntry(r, col, 3),
    DividePivotEntry(r, col, 4), DividePivotEntry(r, col, 5), DividePivotEntry(r, col, 6),
    DividePivotEntry(r, col, 7), DividePivotEntry(r, col, 8), DividePivotEntry(r, col, 9)>>

\* A[i][j] -= factor * A[row][j] for j >= col
ClearEntry(r, pivot, col, j) ==
  IF j >= col THEN RSub(r[j], RMul(r[col], pivot[j])) ELSE r[j]

ClearRow(A, row, col, i) ==
  IF i \in RowsToClear(Len(A), row) THEN
    <<ClearEntry(A[i], A[row], col, 1), ClearEntry(A[i], A[row], col, 2),
      ClearEntry(A[i], A[row], col, 3), ClearEntry(A[i], A[row], col, 4),
      ClearEntry(A[i], A[row], col, 5), ClearEntry(A[i], A[row], col, 6),
      ClearEntry(A[i], A[row], col, 7), ClearEntry(A[i], A[row], col, 8),
      ClearEntry(A[i], A[row], col, 9)>>
  ELSE A[i]

ClearColumn(A, row, col) ==
  <<ClearRow(A, row, col, 1), ClearRow(A, row, col, 2), ClearRow(A, row, col, 3),
    ClearRow(A, row, col, 4), ClearRow(A, row, col, 5), ClearRow(A, row, col, 6),
    ClearRow(A, row, col, 7), ClearRow(A, row, col, 8)>>

\* the loop of gaussSolveHomography, rows and columns counted from 1
RECURSIVE GaussSteps(_, _, _)
GaussSteps(A, col, row) ==
  IF col >= Len(A[1]) \/ row > Len(A) THEN A
  ELSE
    LET sel == SelectPivot(A, col, row, row + 1)
    IN IF Tiny(A[sel][col]) THEN GaussSteps(A, col + 1, row)
       ELSE
         LET swapped == [A EXCEPT ![row] = A[sel], ![sel] = A[row]]
             scaled == [swapped EXCEPT ![row] = DividePivotRow(swapped[row], col)]
             \* the matrix after the step, evaluated once
             cleared == {ClearColumn(S, row, col) : S \in {scaled}}
         IN CHOOSE R \in {GaussSteps(M, col + 1, row + 1) : M \in cleared} : TRUE

\* the values of div, in the order the loop divides by them
RECURSIVE PivotDivisors(_, _, _)
PivotDivisors(A, col, row) ==
  IF col >= Len(A[1]) \/ row > Len(A) THEN <<>>
  ELSE
    LET sel == SelectPivot(A, col, row, row + 1)
    IN IF Tiny(A[sel][col]) THEN PivotDivisors(A, col + 1, row)
       ELSE
         LET swapped == [A EXCEPT ![row] = A[sel], ![sel] = A[row]]
             scaled == [swapped EXCEPT ![row] = DividePivotRow(swapped[row], col)]
             cleared == {ClearColumn(S, row, col) : S \in {scaled}}
         IN CHOOSE d \in {<<A[sel][col]>> \o PivotDivisors(M, col + 1, row + 1) :
                             M \in cleared} : TRUE

\* h[i] = A[i] ? A[i][n - 1] : 0
LastColumn(R) ==
  LET n == Len(R[1])
  IN <<R[1][n], R[2][n], R[3][n], R[4][n], R[5][n], R[6][n], R[7][n], R[8][n],
       IF 9 <= Len(R) THEN R[9][n] ELSE RInt(0)>>

\* if (Math.abs(h[8]) < 1e-9) h[8] = 1; then every h[i] /= h[8]
Normalised(h) ==
  LET h8 == IF Tiny(h[9]) THEN RInt(1) ELSE h[9]
  IN <<RDiv(h[1], h8), RDiv(h[2], h8), RDiv(h[3], h8), RDiv(h[4], h8),
       RDiv(h[5], h8), RDiv(h[6], h8), RDiv(h[7], h8), RDiv(h[8], h8),
       RDiv(h8, h8)>>

\* the last column read without the final normalisation
gaussSolveUnnormalised(A) ==
  CHOOSE h \in {LastColumn(R) : R \in {GaussSteps(A, 1, 1)}} : TRUE

\* elimination, then the last column normalised so that h8 = 1
gaussSolveHomography(A) ==
  CHOOSE h \in {Normalised(c) : c \in {LastColumn(R) : R \in {GaussSteps(A, 1, 1)}}} : TRUE

\* the 8 x 9 system A of computeHomography
HomographySystem(src, dst) ==
  HomographyRows(src[1], dst[1]) \o HomographyRows(src[2], dst[2])
  \o HomographyRows(src[3], dst[3]) \o HomographyRows(src[4], dst[4])

computeHomography(src, dst) == gaussSolveHomography(HomographySystem(src, dst))

\* corners of the canonical square of warpToCanonical
CanonicalSquare(size) ==
  << <<0, 0>>, <<size - 1, 0>>, <<size - 1, size - 1>>, <<0, size - 1>> >>

\* the mapping of warpToCanonical: (sx, sy) of the canonical pixel (x, y);
\* a zero denominator gives no finite point
WarpMap(H, x, y) ==
  LET denom == RAdd(RAdd(RMul(H[7], RInt(x)), RMul(H[8], RInt(y))), RInt(1))
  IN IF denom[1] = 0 THEN [finite |-> FALSE]
     ELSE [finite |-> TRUE,
           sx |-> RDiv(RAdd(RAdd(RMul(H[1], RInt(x)), RMul(H[2], RInt(y))), H[3]), denom),
           sy |-> RDiv(RAdd(RAdd(RMul(H[4], RInt(x)), RMul(H[5], RInt(y))), H[6]), denom)]

\* Math.round of a fraction: floor(r + 1/2)
JsRound(r) == (2 * r[1] + r[2]) \div (2 * r[2])

\* byte j of the pixel buffer of a sw x sh frame; a typed array read outside
\* its length gives undefined, which is stored as 0
SourceByte(j, sw, sh) == IF j \in 0 .. (sw * sh * 4 - 1) THEN (j * 37 + 11) % 256 ELSE 0

\* a test of the source coordinate that forgets the lower edges
InFrameUpperOnly(sx0, sy0, sw, sh) == sx0 < sw /\ sy0 < sh

\* sx0 >= 0 && sy0 >= 0 && sx0 < sw && sy0 < sh
InFrame(sx0, sy0, sw, sh) == sx0 >= 0 /\ sy0 >= 0 /\ sx0 < sw /\ sy0 < sh

White == <<255, 255, 255, 255>>

\* the body of the pixel loop of warpToCanonical for the canonical pixel
\* (x, y): the indices of the source buffer it reads and the 4 bytes it writes;
\* NaN and the infinities fail every comparison that would admit them
WarpPixel(H, x, y, sw, sh) ==
  LET p == WarpMap(H, x, y)
  IN IF p.finite /\ InFrame(JsRound(p.sx), JsRound(p.sy), sw, sh) THEN
       LET si == (JsRound(p.sy) * sw + JsRound(p.sx)) * 4
       IN [reads |-> {si, si + 1, si + 2},
           px |-> <<SourceByte(si, sw, sh), SourceByte(si + 1, sw, sh),
                    SourceByte(si + 2, sw, sh), 255>>]
     ELSE [reads |-> {}, px |-> White]

\* the output image of warpToCanonical, pixel i = y * size + x
warpToCanonical(H, size, sw, sh) ==
  [i \in 0 .. (size * size - 1) |-> WarpPixel(H, i % size, i \div size, sw, sh)]

\* ------------------------------------------------------------ enhancement filters
\* an ImageData: width, height and the bytes data[0 .. width * height * 4 - 1]
ImageData(width, height, data) == [width |-> width, height |-> height, data |-> data]

\* the store of the value num / den into a Uint8ClampedArray: clamped to
\* 0 .. 255 and rounded to the nearest integer, halves to the even one
ToUint8Clamped(num, den) ==
  IF num <= 0 THEN 0
  ELSE IF num >= 255 * den THEN 255
  ELSE LET q == num \div den
           r2 == 2 * (num % den)
       IN IF r2 < den THEN q
          ELSE IF r2 > den THEN q + 1
          ELSE IF q % 2 = 0 THEN q ELSE q + 1

\* the pixel of byte i is inside the loops y = 1 .. height - 2, x = 1 .. width - 2
Interior(img, i) ==
  LET pix == i \div 4
      x == pix % img.width
      y == pix \div img.width
  IN x >= 1 /\ x < img.width - 1 /\ y >= 1 /\ y < img.height - 1

\* kernels 0 -1 0 / -1 k -1 / 0 -1 0 with the centre weight k in tenths, and
\* what each sharpen filter does after the interior loop
SharpenCentre(filter) ==
  CASE filter = "applySharpen" -> 50
    [] filter = "applySharpen_part_006" -> 50
    [] filter = "applyMildSharpen_part_000" -> 42
    [] filter = "applyMildSharpen_part_001" -> 41

\* a border policy that copies the border in every sharpen filter
BorderPolicyExplicit(filter) == "explicit"

BorderPolicy(filter) ==
  CASE filter = "applySharpen" -> "explicit"
    [] filter = "applySharpen_part_006" -> "alphazero"
    [] filter = "applyMildSharpen_part_000" -> "alphazero"
    [] filter = "applyMildSharpen_part_001" -> "none"

\* out after the interior loop: the convolved colour and the copied alpha of
\* the interior pixels, 0 everywhere else
Convolved(img, centre10, i) ==
  IF ~Interior(img, i) THEN 0
  ELSE IF i % 4 = 3 THEN img.data[i]
  ELSE LET stride == img.width * 4
       IN ToUint8Clamped(centre10 * img.data[i]
                         - 10 * (img.data[i - stride] + img.data[i - 4]
                                 + img.data[i + 4] + img.data[i + stride]), 10)

\* a fixed-kernel sharpen filter: the new ImageData
SharpenFilter(filter, img) ==
  LET policy == BorderPolicy(filter)
      centre10 == SharpenCentre(filter)
      copied(i) ==
        CASE policy = "explicit" -> ~Interior(img, i)
          [] policy = "alphazero" -> Convolved(img, centre10, 4 * (i \div 4) + 3) = 0
          [] policy = "none" -> FALSE
  IN ImageData(img.width, img.height,
       [i \in DOMAIN img.data |->
          IF copied(i) THEN img.data[i] ELSE Convolved(img, centre10, i)])

\* blur of applyUnsharp: the 3 x 3 box mean of the interior pixels, 0 elsewhere
BoxBlur(img, i) ==
  IF ~Interior(img, i) THEN 0
  ELSE IF i % 4 = 3 THEN img.data[i]
  ELSE LET w4 == img.width * 4
       IN ToUint8Clamped(img.data[i - w4 - 4] + img.data[i - w4] + img.data[i - w4 + 4]
                         + img.data[i - 4] + img.data[i] + img.data[i + 4]
                         + img.data[i + w4 - 4] + img.data[i + w4] + img.data[i + w4 + 4],
                         9)

\* an unsharp mask that always uses its default amount
applyUnsharpDefault(img, amount) ==
  ImageData(img.width, img.height,
    [i \in DOMAIN img.data |->
       IF i % 4 = 3 THEN img.data[i]
       ELSE LET orig == img.data[i]
                b == IF BoxBlur(img, i) = 0 THEN orig ELSE BoxBlur(img, i)
            IN ToUint8Clamped(100 * orig + 30 * (orig - b), 100)])

\* applyUnsharp, amount in hundredths: out = orig + amount * (orig - (blur || orig))
applyUnsharp(img, amount) ==
  ImageData(img.width, img.height,
    [i \in DOMAIN img.data |->
       IF i % 4 = 3 THEN img.data[i]
       ELSE LET orig == img.data[i]
                b == IF BoxBlur(img, i) = 0 THEN orig ELSE BoxBlur(img, i)
            IN ToUint8Clamped(100 * orig + amount * (orig - b), 100)])

\* applyBrightnessContrast, contrast and brightness in hundredths:
\* Math.round(clamp((old - 0.5) * contrast + 0.5 + brightness, 0, 1) * 255),
\* written into the buffer it was given
applyBrightnessContrast(img, contrastVal, brightnessVal) ==
  ImageData(img.width, img.height,
    [i \in DOMAIN img.data |->
       IF i % 4 = 3 THEN img.data[i]
       ELSE LET v200 == (2 * img.data[i] - 255) * contrastVal + 25500 + 510 * brightnessVal
            IN IF v200 < 0 THEN 0
               ELSE IF v200 > 51000 THEN 255
               ELSE (v200 + 100) \div 200])

\* one call of a filter: the ImageData it returns and the bytes of the buffer
\* it was given, as they are after the call
FilterCall(filter, img, params) ==
  CASE filter = "applyUnsharp" ->
         [out |-> applyUnsharp(img, params[1]), data |-> img.data]
    [] filter = "applyBrightnessContrast" ->
         LET r == applyBrightnessContrast(img, params[1], params[2])
         IN [out |-> r, data |-> r.data]
    [] OTHER -> [out |-> SharpenFilter(filter, img), data |-> img.data]

\* useState(null) of an image: no image yet
NoImage == ImageData(0, 0, <<>>)

\* processImage's img.onload: brightness and contrast, then the unsharp mask
\* when sharpAmt > 0.001 (sharpAmt in hundredths)
Processed(img, sharpAmt, contrastVal, brightnessVal) ==
  LET bc == applyBrightnessContrast(img, contrastVal, brightnessVal)
  IN IF 10 * sharpAmt > 1 THEN applyUnsharp(bc, sharpAmt) ELSE bc

\* processImage up to img.src = url: a new Image that remembers the arguments
\* of the call in its onload closure
NewImage(url, sharpAmt, contrastVal, brightnessVal, cb) ==
  [url |-> url, sharpAmt |-> sharpAmt, contrastVal |-> contrastVal,
   brightnessVal |-> brightnessVal, cb |-> cb]

\* the two effects on [base, sharpAmount, contrast, brightness]: each returns
\* when its base image is null, else calls processImage
RunEffects(st, runQr, runCenter) ==
  (IF runQr /\ st.qrBase # NoImage
     THEN <<NewImage(st.qrBase, st.sharpAmount, st.contrast, st.brightness,
                     "setQrProcessed")>>
     ELSE <<>>)
  \o (IF runCenter /\ st.centerBase # NoImage
        THEN <<NewImage(st.centerBase, st.sharpAmount, st.contrast, st.brightness,
                        "setCenterProcessed")>>
        ELSE <<>>)

\* ------------------------------------------------------------ stability tracker
\* hist.push(box); if (hist.length > STABILITY_FRAMES) hist.shift()
pushQrBoxKeepOldest(hist, box) ==
  IF Len(hist) + 1 > STABILITY_FRAMES THEN hist ELSE Append(hist, box)

pushQrBox(hist, box) ==
  LET pushed == Append(hist, box)
  IN IF Len(pushed) > STABILITY_FRAMES THEN Tail(pushed) ELSE pushed

\* componentwise Math.round of the mean; null for an empty window
getAverageBox(hist) ==
  IF Len(hist) = 0 THEN NullBox
  ELSE LET n == Len(hist)
       IN Box(Round(SeqSum([i \in DOMAIN hist |-> hist[i].x]), n),
              Round(SeqSum([i \in DOMAIN hist |-> hist[i].y]), n),
              Round(SeqSum([i \in DOMAIN hist |-> hist[i].w]), n),
              Round(SeqSum([i \in DOMAIN hist |-> hist[i].h]), n))

CenterOffNoAbs(bx, bw, ax, aw) ==
  (2 * bx + bw) - (2 * ax + aw) > 2 * POSITION_TOL_PX

\* Math.abs(cx - cax) > POSITION_TOL_PX with cx = b.x + b.w / 2 (doubled)
CenterOff(bx, bw, ax, aw) ==
  Abs((2 * bx + bw) - (2 * ax + aw)) > 2 * POSITION_TOL_PX

\* Math.abs(b.w - avg.w) / avg.w > SIZE_TOL_RATIO in IEEE arithmetic:
\* x / 0 is Infinity for x > 0 and 0 / 0 is NaN, which compares false
SizeOffPlain(bw, aw) ==
  IF aw = 0 THEN bw # 0
  ELSE IF aw < 0 THEN FALSE
  ELSE 100 * Abs(bw - aw) > SIZE_TOL_PCT * aw

\* Math.abs(b.w - avg.w) / Math.max(1, avg.w) > SIZE_TOL_RATIO
SizeOffGuarded(bw, aw) ==
  100 * Abs(bw - aw) > SIZE_TOL_PCT * Max2(1, aw)

SizeOff(kind, bw, aw) ==
  IF kind = "opencv" THEN SizeOffGuarded(bw, aw) ELSE SizeOffPlain(bw, aw)

\* the body of the for loop of isStable for one sample
SampleOff(kind, b, avg) ==
  \/ CenterOff(b.x, b.w, avg.x, avg.w)
  \/ CenterOff(b.y, b.h, avg.y, avg.h)
  \/ SizeOff(kind, b.w, avg.w)
  \/ SizeOff(kind, b.h, avg.h)

\* for (const b of hist) { if (...) return false } return true, from sample i
RECURSIVE StableFrom(_, _, _, _)
StableFrom(kind, hist, avg, i) ==
  IF i > Len(hist) THEN TRUE
  ELSE IF SampleOff(kind, hist[i], avg) THEN FALSE
  ELSE StableFrom(kind, hist, avg, i + 1)

isStableLastOnly(kind, hist) ==
  IF Len(hist) < STABILITY_FRAMES THEN FALSE
  ELSE ~SampleOff(kind, hist[Len(hist)], getAverageBox(hist))

\* isStable of the zxing component (kind "zxing") and of the OpenCV component
isStable(kind, hist) ==
  IF Len(hist) < STABILITY_FRAMES THEN FALSE
  ELSE IF getAverageBox(hist) = NullBox THEN FALSE
  ELSE StableFrom(kind, hist, getAverageBox(hist), 1)

\* ------------------------------------------------------------ session state
VARIABLES
  component,      \* which scanner component the session runs
  videoSide,      \* videoWidth = videoHeight of the video element (0: no dimensions yet)
  pc,             \* position of the asynchronous camera start
  mounted,        \* videoRef.current is the video element (not null)
  tornDown,       \* the effect cleanup (unmount) has run
  currentStream,  \* closure variable currentStream is set
  srcObject,      \* video.srcObject holds the stream
  trackLive,      \* the acquired camera track has not been stopped
  controls,       \* closure variable controls is set
  scanning,       \* the decoder's continuous scan delivers callbacks
  cvReady,        \* OpenCV runtime loaded
  cvReadyAtClick, \* cvReady as captured by the handleStartCamera closure
  camReady,       \* state camReady
  effectPending,  \* the [cvReady, camReady] effect is scheduled
  rafScheduled,   \* a requestAnimationFrame(loop) callback is pending
  locked,         \* locked / lockedRef.current
  hist,           \* qrBoxHistoryRef.current
  result,         \* state result (decoded text)
  qrBase,         \* state qrBase / qrCropped: the crop box of the QR image
  centerBase,     \* state centerBase / centerCrop: the patch inside the crop
  frames,         \* number of frame callbacks delivered so far
  lastFrame,      \* outcome of the most recent frame callback
  runLen,         \* consecutive accepted detections up to the most recent frame
  lockRun,        \* runLen when the lock was last set by the stability gate (-1: never)
  pushLog,        \* boxes pushed since the window was last cleared
  firstCommit,    \* the outputs when the first locking callback returned
  atTeardown,     \* lock flag and outputs when the cleanup ran
  detectError,    \* state errors of the OpenCV scanner lists an "OpenCV detect error"
  capturing,      \* state capturing of the button-triggered capture
  cameraReady,    \* state cameraReady of the button-triggered capture
  apiResult,      \* state apiResult is set
  cpc,            \* position of handleCapture: "idle" or awaiting "fetch"
  clicks,         \* number of capture requests so far
  cap,            \* what the capture request handled last was given and did
  fpc,            \* function harness: "in", "out" or "off"
  arg,            \* function harness: the input
  ret             \* function harness: the value returned

sessionVars ==
  <<component, videoSide, pc, mounted, tornDown, currentStream, srcObject,
    trackLive, controls, scanning, cvReady, cvReadyAtClick, camReady,
    effectPending, rafScheduled, locked, hist, result, qrBase, centerBase,
    frames, lastFrame, runLen, lockRun, pushLog, firstCommit, atTeardown>>

captureVars == <<capturing, cameraReady, apiResult, cpc, clicks, cap>>

harnessVars == <<fpc, arg, ret>>

vars == <<sessionVars, detectError, captureVars, harnessVars>>

Components == {"zxing", "oneshot", "opencv", "warp", "button"}
Texts == {"A", "B"}

Outputs(r, q, c) == [result |-> r, qrBase |-> q, centerBase |-> c]
NoSnapshot == [set |-> FALSE, locked |-> FALSE, out |-> Outputs("", NullBox, NullBox)]
Snapshot(l, r, q, c) == [set |-> TRUE, locked |-> l, out |-> Outputs(r, q, c)]

\* ------------------------------------------------------------ frame inputs
\* a corner point given in whole pixels
Px(x, y) == <<x * Scale, y * Scale>>
\* the square symbol with top-left corner (x, y) and side s, as 4 corner points
Quad(x, y, s) == <<Px(x, y), Px(x + s, y), Px(x + s, y + s), Px(x, y + s)>>
\* the three finder patterns only
Tri(x, y, s) == <<Px(x, y), Px(x + s, y), Px(x, y + s)>>

NoRes == [kind |-> "none", text |-> "", pts |-> <<>>]
Threw == [kind |-> "throw", text |-> "", pts |-> <<>>]
Code(t, p) == [kind |-> "code", text |-> t, pts |-> p]

\* what a capture request was given (the two decode attempts) and did
Capture(roi, full, outcome, alerted, stopped) ==
  [roi |-> roi, full |-> full, outcome |-> outcome, alerted |-> alerted,
   stopped |-> stopped]
\* no capture request handled yet
NoCapture == Capture(NoRes, NoRes, "none", FALSE, FALSE)

\* symbols seen in a VideoSide x VideoSide frame: at rest, moved by 1 px, moved
\* by 12 px, finder patterns only, crossing the aim square, two points only
SessionPts ==
  { Quad(10, 12, 8), Quad(11, 12, 8), Quad(22, 12, 8), Tri(10, 12, 8),
    Quad(5, 12, 8), <<Px(12, 12), Px(20, 12)>> }

Detections == {Code(t, p) : t \in Texts, p \in SessionPts}

\* where the canvas calls of the extraction can throw (getContext returns null,
\* drawImage or toDataURL throws): nowhere, before the QR image is set, or
\* after it and before the patch is set
Faults == {"none", "qr", "patch"}

\* what the decoder can report for a frame of the session's video
FrameInputs(side, withThrow) ==
  {NoRes} \cup (IF side = 0 THEN {} ELSE Detections)
          \cup (IF withThrow THEN {Threw} ELSE {})

\* ------------------------------------------------------------ frame handlers
\* if (!vw || !vh) return
VideoNotReadyNever(side) == FALSE
VideoNotReady(side) == side = 0

\* a scanner that accepts a symbol wherever it is in the frame
OutsideAimNever(pts, vw, vh) == FALSE

\* minX < boxX || minY < boxY || maxX > boxX2 || maxY > boxY2
OutsideAim(pts, vw, vh) ==
  LET boxSize == (Min2(vw, vh) * BOX_FRACTION_PCT) \div 100
      boxX == (vw - boxSize) \div 2
      boxY == (vh - boxSize) \div 2
      boxX2 == boxX + boxSize
      boxY2 == boxY + boxSize
  IN \/ SeqMin(PtsX(pts)) < boxX * Scale
     \/ SeqMin(PtsY(pts)) < boxY * Scale
     \/ SeqMax(PtsX(pts)) > boxX2 * Scale
     \/ SeqMax(PtsY(pts)) > boxY2 * Scale

Step(outcome, h, lock, text, box, pushed) ==
  [outcome |-> outcome, hist |-> h, lock |-> lock, text |-> text, box |-> box,
   pushed |-> pushed]

\* a detection that reached the aim-square test: reject, or push and test stability
GateStep(kind, res, h, vw, vh) ==
  IF OutsideAim(res.pts, vw, vh)
  THEN Step("outside", <<>>, FALSE, "", NullBox, NullBox)
  ELSE LET qrBox == ExtractBox(kind, res.pts, vw, vh)
           h1 == pushQrBox(h, qrBox)
       IN IF isStable(kind, h1)
          THEN Step("locked", <<>>, TRUE, res.text, getAverageBox(h1), qrBox)
          ELSE Step("accepted", h1, FALSE, "", NullBox, qrBox)

\* the decodeFromVideoDevice callback of the stability scanner, after its guards
ZxingStep(res, h, vw, vh) ==
  IF Len(res.pts) < 3 THEN Step("fewpoints", h, FALSE, "", NullBox, NullBox)
  ELSE GateStep("zxing", res, h, vw, vh)

\* the try block of the OpenCV loop
OpenCvStep(res, h, vw, vh) ==
  IF res.kind = "throw" THEN Step("threw", h, FALSE, "", NullBox, NullBox)
  ELSE IF res.kind = "none" THEN Step("nodetect", <<>>, FALSE, "", NullBox, NullBox)
  ELSE IF Len(res.pts) < 4 THEN Step("fewpoints", <<>>, FALSE, "", NullBox, NullBox)
  ELSE GateStep("opencv", res, h, vw, vh)

\* the callbacks of frames i .. Len(dets) of an unlocked scanner whose window is
\* h, up to the one that locks: what the last of them did
RECURSIVE WindowSteps(_, _, _, _, _, _)
WindowSteps(kind, dets, i, h, vw, vh) ==
  LET st == IF kind = "opencv" THEN OpenCvStep(dets[i], h, vw, vh)
            ELSE ZxingStep(dets[i], h, vw, vh)
  IN IF i = Len(dets) \/ st.lock THEN st
     ELSE WindowSteps(kind, dets, i + 1, st.hist, vw, vh)

\* bookkeeping common to every frame callback: the new lock flag, window and
\* outputs, and the history variables that record what the callback did
FrameEffects(outcome, lockNow, gate, l1, h1, log0, pushed, r1, q1, c1) ==
  /\ frames' = frames + 1
  /\ lastFrame' = outcome
  /\ runLen' = IF outcome \in {"accepted", "locked"} THEN runLen + 1 ELSE 0
  /\ lockRun' = IF lockNow /\ gate THEN runLen + 1 ELSE lockRun
  /\ locked' = l1
  /\ hist' = h1
  /\ pushLog' = IF h1 = <<>> THEN <<>>
                ELSE IF pushed # NullBox THEN Append(log0, pushed)
                ELSE log0
  /\ result' = r1
  /\ qrBase' = q1
  /\ centerBase' = c1
  /\ firstCommit' = IF lockNow /\ ~firstCommit.set
                    THEN Snapshot(TRUE, r1, q1, c1) ELSE firstCommit

\* a callback that returns at its guards
FrameIgnored(outcome, l0, h0, log0) ==
  FrameEffects(outcome, FALSE, FALSE, l0, h0, log0, NullBox,
               result, qrBase, centerBase)

\* captureQrRegion(v, box): the crop and its centre patch; when it throws, the
\* statements after it (stopping the camera, clearing the window) do not run
FrameGated(st, h0, log0, fault) ==
  IF st.lock /\ fault # "none"
  THEN FrameEffects("raised", TRUE, TRUE, TRUE, pushQrBox(h0, st.pushed), log0,
                    st.pushed, st.text,
                    IF fault = "qr" THEN qrBase ELSE st.box, centerBase)
  ELSE IF st.lock
  THEN FrameEffects(st.outcome, TRUE, TRUE, TRUE, st.hist, log0, st.pushed,
                    st.text, st.box,
                    CenterPatch(st.box.w, st.box.h, CENTER_FRACTION_PCT))
  ELSE FrameEffects(st.outcome, FALSE, TRUE, FALSE, st.hist, log0, st.pushed,
                    result, qrBase, centerBase)

\* the decoder's scan after the callback has thrown: the library decides
\* whether it goes on scanning
ScanAfterThrow(libStops) == IF libStops THEN FALSE ELSE scanning

\* ---- the zxing scanner with stability tracking
ZxingCallback(res, fault, libStops) ==
  /\ component = "zxing"
  /\ scanning
  /\ frames < MaxFrames
  \* a fault is an input only of a callback that reaches the extraction
  /\ libStops => fault # "none"
  /\ fault # "none" =>
       /\ res.kind = "code" /\ ~locked /\ mounted /\ ~VideoNotReady(videoSide)
       /\ ZxingStep(res, hist, videoSide, videoSide).lock
  /\ IF res.kind = "none" \/ locked \/ ~mounted \/ VideoNotReady(videoSide)
     THEN /\ FrameIgnored(IF res.kind = "none" /\ ~locked
                          THEN "nodetect" ELSE "ignored", locked, hist, pushLog)
          /\ UNCHANGED <<scanning, trackLive>>
     ELSE LET st == ZxingStep(res, hist, videoSide, videoSide)
          IN /\ FrameGated(st, hist, pushLog, fault)
             /\ IF st.lock /\ fault # "none"
                THEN scanning' = ScanAfterThrow(libStops) /\ UNCHANGED trackLive
                ELSE /\ scanning' = IF st.lock /\ controls THEN FALSE ELSE scanning
                     /\ trackLive' = IF st.lock /\ currentStream
                                      THEN FALSE ELSE trackLive
  /\ UNCHANGED <<component, videoSide, pc, mounted, tornDown, currentStream,
                 srcObject, controls, cvReady, cvReadyAtClick, camReady,
                 effectPending, rafScheduled, atTeardown>>
  /\ UNCHANGED <<detectError, captureVars>>
  /\ UNCHANGED harnessVars

\* ---- the one-shot zxing scanner: the first decoded frame locks
OneShotCallback(res, fault, libStops) ==
  /\ component = "oneshot"
  /\ scanning
  /\ frames < MaxFrames
  /\ fault # "none" => (res.kind = "code" /\ ~locked /\ mounted)
  /\ libStops => (res.kind = "code" /\ ~locked /\ (fault # "none" \/ ~mounted))
  /\ IF locked \/ res.kind = "none"
     THEN /\ FrameIgnored(IF locked THEN "ignored" ELSE "nodetect",
                          locked, hist, pushLog)
          /\ UNCHANGED <<scanning, trackLive>>
     ELSE LET box == ExtractBox("oneshot", res.pts, videoSide, videoSide)
              \* v.videoWidth of a null ref is a TypeError; getImageData of an
              \* empty rectangle is an IndexSizeError: the callback ends there
              thrown == ~mounted \/ box.w <= 0 \/ box.h <= 0
          IN IF thrown \/ fault # "none"
             THEN /\ FrameEffects("raised", TRUE, FALSE, TRUE, hist, pushLog,
                                  NullBox, res.text,
                                  IF thrown \/ fault = "qr" THEN qrBase ELSE box,
                                  centerBase)
                  /\ scanning' = ScanAfterThrow(libStops)
                  /\ UNCHANGED trackLive
             ELSE /\ FrameEffects("locked", TRUE, FALSE, TRUE, hist, pushLog,
                                  NullBox, res.text, box,
                                  CenterPatch(box.w, box.h,
                                              CENTER_FRACTION_PCT_ONESHOT))
                  /\ scanning' = IF controls THEN FALSE ELSE scanning
                  /\ trackLive' = IF currentStream THEN FALSE ELSE trackLive
  /\ UNCHANGED <<component, videoSide, pc, mounted, tornDown, currentStream,
                 srcObject, controls, cvReady, cvReadyAtClick, camReady,
                 effectPending, rafScheduled, atTeardown>>
  /\ UNCHANGED <<detectError, captureVars>>
  /\ UNCHANGED harnessVars

\* ---- the perspective-normalising zxing scanner: the first decoded frame locks
\* the centre patch cut from the qrSize x qrSize canonical square
WarpCenterPatch(qrSize) ==
  LET cSize == (qrSize * CENTER_FRACTION_PCT_WARP) \div 100
  IN Box((qrSize - cSize) \div 2, (qrSize - cSize) \div 2, cSize, cSize)

WarpCallback(res, fault, libStops) ==
  /\ component = "warp"
  /\ scanning
  /\ frames < MaxFrames
  /\ fault # "none" => (res.kind = "code" /\ ~locked /\ mounted /\ Len(res.pts) >= 3)
  /\ libStops => (res.kind = "code" /\ ~locked /\ (fault # "none" \/ ~mounted))
  /\ IF locked \/ res.kind = "none"
     THEN /\ FrameIgnored(IF locked THEN "ignored" ELSE "nodetect",
                          locked, hist, pushLog)
          /\ UNCHANGED <<scanning, trackLive>>
     ELSE IF ~mounted \/ (Len(res.pts) >= 3 /\ fault # "none")
     THEN \* v.videoWidth of a null ref is a TypeError
          /\ FrameEffects("raised", TRUE, FALSE, TRUE, hist, pushLog,
                          NullBox, res.text,
                          IF ~mounted \/ fault = "qr" THEN qrBase
                          ELSE Box(0, 0, QR_SIZE, QR_SIZE),
                          centerBase)
          /\ scanning' = ScanAfterThrow(libStops)
          /\ UNCHANGED trackLive
     ELSE /\ IF Len(res.pts) < 3
             THEN \* getQrCornersFromPoints returns null: stopAll(); return
                  FrameEffects("locked", TRUE, FALSE, TRUE, hist, pushLog,
                               NullBox, res.text, qrBase, centerBase)
             ELSE FrameEffects("locked", TRUE, FALSE, TRUE, hist, pushLog,
                               NullBox, res.text, Box(0, 0, QR_SIZE, QR_SIZE),
                               WarpCenterPatch(QR_SIZE))
          /\ scanning' = IF controls THEN FALSE ELSE scanning
          /\ trackLive' = IF currentStream THEN FALSE ELSE trackLive
  /\ UNCHANGED <<component, videoSide, pc, mounted, tornDown, currentStream,
                 srcObject, controls, cvReady, cvReadyAtClick, camReady,
                 effectPending, rafScheduled, atTeardown>>
  /\ UNCHANGED <<detectError, captureVars>>
  /\ UNCHANGED harnessVars

\* ---- the OpenCV scanner
\* one run of `loop` with lockedRef.current = l0 and the window h0
LoopRun(res, fault, l0, h0, log0, e0) ==
  IF l0 \/ ~mounted \/ VideoNotReady(videoSide)
  THEN /\ FrameIgnored("ignored", l0, h0, log0)
       /\ rafScheduled' = TRUE
       /\ detectError' = e0
       /\ UNCHANGED trackLive
  ELSE LET st == OpenCvStep(res, h0, videoSide, videoSide)
           caught == st.outcome = "threw" \/ (st.lock /\ fault # "none")
       IN /\ FrameGated(st, h0, log0, fault)
          \* catch (err) { pushError("OpenCV detect error: " + ...) }
          /\ detectError' = (e0 \/ caught)
          \* stopCamera(); cancelAnimationFrame(rafRef.current)
          /\ trackLive' = IF st.lock /\ ~caught /\ srcObject THEN FALSE ELSE trackLive
          /\ rafScheduled' = (~st.lock \/ caught)

\* a fault is an input only of a run of `loop` that reaches the extraction
FaultApplies(res, fault, l0, h0) ==
  fault # "none" =>
    /\ ~l0 /\ mounted /\ ~VideoNotReady(videoSide)
    /\ OpenCvStep(res, h0, videoSide, videoSide).lock

\* startDetectionLoop: reset the lock and the window, cancel the pending
\* callback and run `loop` once (on an empty window, so it cannot lock)
startDetectionLoop(res, e0) == LoopRun(res, "none", FALSE, <<>>, <<>>, e0)

RafFrame(res, fault) ==
  /\ component = "opencv"
  /\ rafScheduled
  /\ frames < MaxFrames
  /\ FaultApplies(res, fault, locked, hist)
  /\ LoopRun(res, fault, locked, hist, pushLog, detectError)
  /\ UNCHANGED <<component, videoSide, pc, mounted, tornDown, currentStream,
                 srcObject, controls, scanning, cvReady, cvReadyAtClick,
                 camReady, effectPending, atTeardown>>
  /\ UNCHANGED captureVars
  /\ UNCHANGED harnessVars

frameVars ==
  <<locked, hist, result, qrBase, centerBase, frames, lastFrame, runLen,
    lockRun, pushLog, firstCommit>>


\* ---- the asynchronous camera start
\* handleStartCamera of the OpenCV scanner is started by a click
ClickStart ==
  /\ component = "opencv"
  /\ pc = "idle"
  /\ ~tornDown
  /\ pc' = "gum"
  /\ cvReadyAtClick' = cvReady
  /\ UNCHANGED <<component, videoSide, mounted, tornDown, currentStream,
                 srcObject, trackLive, controls, scanning, cvReady, camReady,
                 effectPending, rafScheduled, atTeardown>>
  /\ UNCHANGED frameVars
  /\ UNCHANGED <<detectError, captureVars>>
  /\ UNCHANGED harnessVars

\* await getUserMedia(...) resolves: the stream is kept, then
\* if (!videoRef.current) return; videoRef.current.srcObject = stream
GetUserMediaResolves ==
  /\ pc = "gum"
  /\ trackLive' = TRUE
  /\ currentStream' = (component # "opencv")
  /\ srcObject' = mounted
  /\ pc' = IF mounted THEN "play" ELSE "returned"
  /\ UNCHANGED <<component, videoSide, mounted, tornDown, controls, scanning,
                 cvReady, cvReadyAtClick, camReady, effectPending,
                 rafScheduled, atTeardown>>
  /\ UNCHANGED frameVars
  /\ UNCHANGED <<detectError, captureVars>>
  /\ UNCHANGED harnessVars

\* getUserMedia rejects: the catch block logs the error
GetUserMediaRejects ==
  /\ pc = "gum"
  /\ pc' = "failed"
  /\ UNCHANGED detectError
  /\ UNCHANGED <<component, videoSide, mounted, tornDown, currentStream,
                 srcObject, trackLive, controls, scanning, cvReady,
                 cvReadyAtClick, camReady, effectPending, rafScheduled,
                 atTeardown>>
  /\ UNCHANGED frameVars
  /\ UNCHANGED captureVars
  /\ UNCHANGED harnessVars

\* await video.play() resolves in a zxing scanner: decodeFromVideoDevice is
\* called and the decoder starts to scan; its promise is still pending.  With
\* a null video element the decoder either throws or scans an element of its own.
PlayResolves(libScans) ==
  /\ component \in {"zxing", "oneshot", "warp"}
  /\ pc = "play"
  /\ IF mounted \/ libScans
     THEN pc' = "decoding" /\ scanning' = TRUE /\ UNCHANGED trackLive
     ELSE \* the catch block; that of the normalising scanner calls stopAll()
          /\ pc' = "failed"
          /\ UNCHANGED scanning
          /\ trackLive' = IF component = "warp" /\ currentStream
                           THEN FALSE ELSE trackLive
  /\ UNCHANGED <<component, videoSide, mounted, tornDown, currentStream,
                 srcObject, controls, cvReady, cvReadyAtClick,
                 camReady, effectPending, rafScheduled, atTeardown>>
  /\ UNCHANGED frameVars
  /\ UNCHANGED <<detectError, captureVars>>
  /\ UNCHANGED harnessVars

\* controls = await codeReader.decodeFromVideoDevice(...)
DecodeResolves ==
  /\ pc = "decoding"
  /\ controls' = TRUE
  /\ pc' = "running"
  /\ UNCHANGED <<component, videoSide, mounted, tornDown, currentStream,
                 srcObject, trackLive, scanning, cvReady, cvReadyAtClick,
                 camReady, effectPending, rafScheduled, atTeardown>>
  /\ UNCHANGED frameVars
  /\ UNCHANGED <<detectError, captureVars>>
  /\ UNCHANGED harnessVars

\* await video.play() settles in the OpenCV scanner (a rejection is caught and
\* a click listener is added, which needs the video element):
\* setCamReady(true); if (cvReady) startDetectionLoop()
PlaySettles(played, res) ==
  /\ component = "opencv"
  /\ pc = "play"
  /\ IF ~played /\ ~mounted
     THEN \* pushError(hint); addEventListener of null throws: pushError(describeCamError(e))
          /\ pc' = "failed"
          /\ UNCHANGED detectError
          /\ UNCHANGED <<camReady, effectPending, rafScheduled, trackLive>>
          /\ UNCHANGED frameVars
     ELSE /\ pc' = "running"
          /\ camReady' = TRUE
          /\ effectPending' = (effectPending \/ ~tornDown)
          /\ IF cvReadyAtClick
             THEN startDetectionLoop(res, detectError)
             ELSE /\ UNCHANGED <<rafScheduled, trackLive, detectError>>
                  /\ UNCHANGED frameVars
  /\ UNCHANGED <<component, videoSide, mounted, tornDown, currentStream,
                 srcObject, controls, scanning, cvReady, cvReadyAtClick,
                 atTeardown>>
  /\ UNCHANGED captureVars
  /\ UNCHANGED harnessVars

\* the OpenCV runtime finishes loading: setReady(true)
OpenCvReady ==
  /\ component = "opencv"
  /\ ~cvReady
  /\ cvReady' = TRUE
  /\ effectPending' = (effectPending \/ ~tornDown)
  /\ UNCHANGED <<component, videoSide, pc, mounted, tornDown, currentStream,
                 srcObject, trackLive, controls, scanning, cvReadyAtClick,
                 camReady, rafScheduled, atTeardown>>
  /\ UNCHANGED frameVars
  /\ UNCHANGED <<detectError, captureVars>>
  /\ UNCHANGED harnessVars

\* useEffect(() => { if (cvReady && camReady) startDetectionLoop() }, [cvReady, camReady])
RunEffect(res) ==
  /\ component = "opencv"
  /\ effectPending
  /\ ~tornDown
  /\ effectPending' = FALSE
  /\ IF cvReady /\ camReady
     THEN startDetectionLoop(res, detectError)
     ELSE UNCHANGED <<rafScheduled, trackLive, detectError>> /\ UNCHANGED frameVars
  /\ UNCHANGED <<component, videoSide, pc, mounted, tornDown, currentStream,
                 srcObject, controls, scanning, cvReady, cvReadyAtClick,
                 camReady, atTeardown>>
  /\ UNCHANGED captureVars
  /\ UNCHANGED harnessVars

\* ---- the button-triggered capture (jsQR on the aim square, then on the frame)
\* symbols jsQR locates in the decode space: well inside, and close to the edge
ButtonPts == { Quad(4, 4, 8), Quad(11, 6, 8) }

\* what one jsQR attempt can do: find nothing, throw, or decode
DecodeAttempts ==
  {NoRes, Threw} \cup {Code(t, p) : t \in Texts, p \in ButtonPts}

\* getImageData of an empty canvas throws, so both attempts throw without
\* video dimensions
CaptureInputs(side) == IF side = 0 THEN {Threw} ELSE DecodeAttempts

\* how the awaited submission can end: fetch rejects, the response is JSON of
\* a 2xx status, JSON of an error status, or not JSON at all
FetchOutcomes == {"rejected", "json", "errorjson", "notjson"}

\* the awaits that throw: fetch rejects, or res.json() fails and res.text() of
\* the consumed body rejects; a response of any status with a JSON body does not
SubmissionThrows(outcome) == outcome \in {"rejected", "notjson"}

\* await video.play() settles in startCamera: setCameraReady(true), or the catch
CameraPlays(played) ==
  /\ component = "button"
  /\ pc = "play"
  /\ pc' = IF played THEN "running" ELSE "failed"
  /\ cameraReady' = (cameraReady \/ played)
  /\ UNCHANGED <<capturing, apiResult, cpc, clicks, cap>>
  /\ UNCHANGED <<component, videoSide, mounted, tornDown, currentStream,
                 srcObject, trackLive, controls, scanning, cvReady,
                 cvReadyAtClick, camReady, effectPending, rafScheduled,
                 atTeardown, detectError>>
  /\ UNCHANGED frameVars
  /\ UNCHANGED harnessVars

\* the decode attempts of handleCapture: the aim square first, the full frame
\* if that found nothing or threw; the result and the side of its decode space
DecodeRoiThenFull(roi, full, vw, vh) ==
  IF roi.kind = "code"
  THEN [qr |-> roi, w |-> (Min2(vw, vh) * BOX_FRACTION_PCT) \div 100,
        h |-> (Min2(vw, vh) * BOX_FRACTION_PCT) \div 100]
  ELSE [qr |-> full, w |-> vw, h |-> vh]

\* the state handleCapture leaves when it reaches its first await or returns
CaptureStep(roi, full, vw, vh) ==
  LET d == DecodeRoiThenFull(roi, full, vw, vh)
      box == CropBoxClamp(d.qr.pts, d.w, d.h)
  IN IF d.qr.kind # "code"
     THEN \* throw new Error("No QR detected ..."); catch: alert; finally
          [out |-> Outputs("", NullBox, NullBox), capturing |-> FALSE,
           cpc |-> "idle", outcome |-> "noqr", alerted |-> TRUE]
     ELSE [out |-> Outputs(d.qr.text, box,
                           CenterPatch(box.w, box.h, CENTER_FRACTION_PCT_BUTTON)),
           capturing |-> TRUE, cpc |-> "fetch", outcome |-> "pending",
           alerted |-> FALSE]

\* a click on the capture button (enabled while cameraReady and not capturing)
HandleCapture(roi, full) ==
  /\ component = "button"
  /\ ~tornDown
  /\ cameraReady
  /\ ~capturing
  /\ clicks < MaxClicks
  /\ clicks' = clicks + 1
  /\ IF ~mounted \/ capturing \/ VideoNotReady(videoSide)
     THEN UNCHANGED <<result, qrBase, centerBase, capturing, apiResult, cpc, cap>>
     ELSE LET st == CaptureStep(roi, full, videoSide, videoSide)
          IN /\ result' = st.out.result
             /\ qrBase' = st.out.qrBase
             /\ centerBase' = st.out.centerBase
             /\ apiResult' = FALSE
             /\ capturing' = st.capturing
             /\ cpc' = st.cpc
             /\ cap' = Capture(roi, full, st.outcome, st.alerted, FALSE)
  /\ UNCHANGED cameraReady
  /\ UNCHANGED <<component, videoSide, pc, mounted, tornDown, currentStream,
                 srcObject, trackLive, controls, scanning, cvReady,
                 cvReadyAtClick, camReady, effectPending, rafScheduled,
                 atTeardown, detectError>>
  /\ UNCHANGED <<locked, hist, frames, lastFrame, runLen, lockRun, pushLog,
                 firstCommit>>
  /\ UNCHANGED harnessVars

\* the awaited fetch settles and handleCapture runs to its end
FetchSettles(outcome) ==
  /\ component = "button"
  /\ cpc = "fetch"
  /\ cpc' = "idle"
  /\ capturing' = FALSE
  /\ IF SubmissionThrows(outcome)
     THEN \* catch (err) { alert(...) }
          /\ cap' = Capture(cap.roi, cap.full, outcome, TRUE, FALSE)
          /\ UNCHANGED <<apiResult, cameraReady, trackLive, srcObject, videoSide>>
     ELSE \* setApiResult(resultData); stopCamera()
          /\ cap' = Capture(cap.roi, cap.full, outcome, FALSE, TRUE)
          /\ apiResult' = TRUE
          /\ cameraReady' = FALSE
          /\ trackLive' = FALSE
          /\ srcObject' = IF mounted THEN FALSE ELSE srcObject
          /\ videoSide' = IF mounted THEN 0 ELSE videoSide
  /\ UNCHANGED clicks
  /\ UNCHANGED <<component, pc, mounted, tornDown, currentStream, controls,
                 scanning, cvReady, cvReadyAtClick, camReady, effectPending,
                 rafScheduled, atTeardown, detectError>>
  /\ UNCHANGED frameVars
  /\ UNCHANGED harnessVars

\* ---- teardown: the component unmounts and the effect cleanup runs.  React
\* has set videoRef.current to null once the cleanup has run; refSeen tells
\* whether stopCamera of the OpenCV scanner still saw the element.
Unmount(refSeen) ==
  /\ ~tornDown
  /\ tornDown' = TRUE
  /\ mounted' = FALSE
  /\ effectPending' = FALSE
  /\ atTeardown' = Snapshot(locked, result, qrBase, centerBase)
  /\ IF component = "opencv"
     THEN \* cancelAnimationFrame(rafRef.current); stopCamera()
          /\ rafScheduled' = FALSE
          /\ trackLive' = IF refSeen /\ srcObject THEN FALSE ELSE trackLive
          /\ UNCHANGED <<scanning, hist, pushLog>>
     ELSE \* if (controls) controls.stop(); if (currentStream) stop the tracks
          /\ scanning' = IF controls THEN FALSE ELSE scanning
          /\ trackLive' = IF currentStream THEN FALSE ELSE trackLive
          /\ hist' = <<>>
          /\ pushLog' = <<>>
          /\ UNCHANGED rafScheduled
  /\ UNCHANGED <<component, videoSide, pc, currentStream, srcObject, controls,
                 cvReady, cvReadyAtClick, camReady>>
  /\ UNCHANGED <<locked, result, qrBase, centerBase, frames, lastFrame, runLen,
                 lockRun, firstCommit>>
  /\ UNCHANGED <<detectError, captureVars>>
  /\ UNCHANGED harnessVars

\* ------------------------------------------------------------ specification
HarnessOff == fpc = "off" /\ arg = <<>> /\ ret = <<>>

Init ==
  /\ component \in Components
  /\ videoSide \in {0, VideoSide}
  /\ pc = IF component = "opencv" THEN "idle" ELSE "gum"
  /\ mounted = TRUE
  /\ tornDown = FALSE
  /\ currentStream = FALSE
  /\ srcObject = FALSE
  /\ trackLive = FALSE
  /\ controls = FALSE
  /\ scanning = FALSE
  /\ cvReady \in (IF component = "opencv" THEN BOOLEAN ELSE {FALSE})
  /\ cvReadyAtClick = FALSE
  /\ camReady = FALSE
  /\ effectPending = FALSE
  /\ rafScheduled = FALSE
  /\ locked = FALSE
  /\ hist = <<>>
  /\ result = ""
  /\ qrBase = NullBox
  /\ centerBase = NullBox
  /\ frames = 0
  /\ lastFrame = "none"
  /\ runLen = 0
  /\ lockRun = -1
  /\ pushLog = <<>>
  /\ firstCommit = NoSnapshot
  /\ atTeardown = NoSnapshot
  /\ detectError = FALSE
  /\ capturing = FALSE
  /\ cameraReady = FALSE
  /\ apiResult = FALSE
  /\ cpc = "idle"
  /\ clicks = 0
  /\ cap = NoCapture
  /\ HarnessOff

Next ==
  \/ ClickStart
  \/ GetUserMediaResolves
  \/ GetUserMediaRejects
  \/ \E libScans \in BOOLEAN : PlayResolves(libScans)
  \/ DecodeResolves
  \/ \E res \in FrameInputs(videoSide, FALSE) : ZxingCallback(res, "none", FALSE)
  \/ \E res \in FrameInputs(videoSide, FALSE), libStops \in BOOLEAN :
       OneShotCallback(res, "none", libStops)
  \/ \E res \in FrameInputs(videoSide, FALSE), libStops \in BOOLEAN :
       WarpCallback(res, "none", libStops)
  \/ \E played \in BOOLEAN, res \in FrameInputs(videoSide, TRUE) :
       PlaySettles(played, res)
  \/ OpenCvReady
  \/ \E res \in FrameInputs(videoSide, TRUE) : RunEffect(res)
  \/ \E res \in FrameInputs(videoSide, TRUE) : RafFrame(res, "none")
  \/ \E played \in BOOLEAN : CameraPlays(played)
  \/ \E roi \in CaptureInputs(videoSide), full \in CaptureInputs(videoSide) :
       HandleCapture(roi, full)
  \/ \E outcome \in FetchOutcomes : FetchSettles(outcome)
  \/ \E refSeen \in BOOLEAN : Unmount(refSeen)

\* sessions in which no canvas call of the extraction fails
Spec == Init /\ [][Next]_vars

\* sessions of the continuous scanners in which the canvas calls of the
\* extraction may fail, observed up to one frame after the lock
InitFault == Init /\ component \in {"zxing", "oneshot", "warp", "opencv"}

NextFault ==
  \/ ClickStart
  \/ GetUserMediaResolves
  \/ GetUserMediaRejects
  \/ \E libScans \in BOOLEAN : PlayResolves(libScans)
  \/ DecodeResolves
  \/ /\ frames < MaxFaultFrames
     /\ \E res \in FrameInputs(videoSide, FALSE), fault \in Faults, libStops \in BOOLEAN :
          \/ ZxingCallback(res, fault, libStops)
          \/ OneShotCallback(res, fault, libStops)
          \/ WarpCallback(res, fault, libStops)
  \/ \E played \in BOOLEAN, res \in FrameInputs(videoSide, TRUE) :
       PlaySettles(played, res)
  \/ OpenCvReady
  \/ \E res \in FrameInputs(videoSide, TRUE) : RunEffect(res)
  \/ /\ frames < MaxFaultFrames
     /\ \E res \in FrameInputs(videoSide, TRUE), fault \in Faults : RafFrame(res, fault)
  \/ \E refSeen \in BOOLEAN : Unmount(refSeen)

SpecFault == InitFault /\ [][NextFault]_vars

\* ------------------------------------------------------------ session claims
CurrentOutputs == Outputs(result, qrBase, centerBase)

\* C1: in a scanning session the commit happens at most once: once a frame
\* callback has set the lock, the decoded text, the QR crop and the CDP patch
\* stay what that callback left, whatever frames and start calls follow.
C1_SingleCommit == firstCommit.set => CurrentOutputs = firstCommit.out

\* C3: when the frame delivered last produced no usable detection (nothing
\* decoded, too few corner points, symbol not inside the aim square, decoder
\* threw), the stability window is empty once its callback has returned.
C3_GapClearsWindow ==
  lastFrame \in {"nodetect", "fewpoints", "outside", "threw"} => hist = <<>>

\* C4: the stability gate sets the lock only when each of the STABILITY_FRAMES
\* most recently delivered frames produced an accepted detection.
C4_LockNeedsConsecutive == lockRun # -1 => lockRun >= STABILITY_FRAMES

\* the last n elements of a sequence
LastN(q, n) == SubSeq(q, Len(q) - n + 1, Len(q))

\* C7: the window holds at most STABILITY_FRAMES boxes, and they are the most
\* recently pushed boxes in arrival order.
C7_WindowIsFifo ==
  /\ Len(hist) <= STABILITY_FRAMES
  /\ hist = LastN(pushLog, Min2(STABILITY_FRAMES, Len(pushLog)))

\* C7 witness: a fifth box has been pushed, so the oldest one was evicted
C7_Witness == Len(pushLog) > STABILITY_FRAMES /\ Len(hist) = STABILITY_FRAMES

\* C8: once a callback of a zxing scanner has set the lock and returned, the
\* camera track is stopped and the decoder's continuous scan is stopped.
C8_LockReleasesCamera ==
  (component \in {"zxing", "oneshot"} /\ locked) => (~trackLive /\ ~scanning)

\* C9: after teardown no camera track is live and the stability history is empty.
C9_TeardownReleasesCamera == tornDown => (~trackLive /\ hist = <<>>)

\* C10: after teardown no callback sets the lock or changes an output.
C10_NothingAfterTeardown ==
  tornDown => (atTeardown.locked = locked /\ atTeardown.out = CurrentOutputs)

\* C11: whenever the lock is set (the locking callback has returned), the
\* decoded text, the QR image and the CDP patch have all been surfaced.
C11_LockSurfacesOutputs ==
  locked => (result # "" /\ qrBase # NullBox /\ centerBase # NullBox)

CaptureFailures == {"noqr", "rejected", "notjson", "errorjson"}

\* C13: a capture request that has finished leaves capturing = false; if it
\* failed (no symbol found in the aim square and in the full frame, or the
\* submission failed) the failure was shown to the user and the camera was
\* not stopped, so that the capture button still works.
C13_FailureLeavesCapturable ==
  (component = "button" /\ cpc = "idle") =>
    /\ ~capturing
    /\ cap.outcome \in CaptureFailures =>
         /\ cap.alerted
         /\ ~cap.stopped
         /\ ~tornDown => (cameraReady /\ trackLive)

\* C14: when the extraction has thrown after the lock was set, the session
\* is not left locked with the camera still running: either the lock was reset
\* or the camera track, the decoder's scan and the frame loop were stopped.
C14_NoStuckLock ==
  lastFrame = "raised" =>
    (~locked \/ (~trackLive /\ ~scanning /\ ~rafScheduled))

\* C15: a decoder that throws is handled as a decoder that found nothing.
\* After a frame of the OpenCV loop on which the decoder threw, the window is
\* empty (as after a frame without symbol) and no error is listed to the user;
\* a capture request whose aim-square attempt threw went on to the full-frame
\* attempt and did what it does when the aim-square attempt finds nothing.
C15_ThrowIsNoDetection ==
  /\ lastFrame = "threw" => (hist = <<>> /\ ~detectError)
  /\ (component = "button" /\ cap.roi = Threw /\ cap.outcome # "none") =>
       /\ CaptureStep(Threw, cap.full, VideoSide, VideoSide)
            = CaptureStep(NoRes, cap.full, VideoSide, VideoSide)
       /\ cap.full.kind = "code" => cap.outcome # "noqr"

\* ------------------------------------------------------------ function harness
\* the specifications below feed one function with every input of a bounded
\* set and record what it returns; no session runs
SessionOff ==
  /\ component = "none"
  /\ videoSide = 0
  /\ pc = "off"
  /\ mounted = FALSE
  /\ tornDown = FALSE
  /\ currentStream = FALSE
  /\ srcObject = FALSE
  /\ trackLive = FALSE
  /\ controls = FALSE
  /\ scanning = FALSE
  /\ cvReady = FALSE
  /\ cvReadyAtClick = FALSE
  /\ camReady = FALSE
  /\ effectPending = FALSE
  /\ rafScheduled = FALSE
  /\ locked = FALSE
  /\ hist = <<>>
  /\ result = ""
  /\ qrBase = NullBox
  /\ centerBase = NullBox
  /\ frames = 0
  /\ lastFrame = "none"
  /\ runLen = 0
  /\ lockRun = -1
  /\ pushLog = <<>>
  /\ firstCommit = NoSnapshot
  /\ atTeardown = NoSnapshot
  /\ detectError = FALSE
  /\ capturing = FALSE
  /\ cameraReady = FALSE
  /\ apiResult = FALSE
  /\ cpc = "idle"
  /\ clicks = 0
  /\ cap = NoCapture

\* ---- region extractor
Coords == -1 .. MaxCoord

\* three corners (the finder patterns) or four, spanning [x0, x1] x [y0, y1]
CornerSets ==
  { <<<<x0, y0>>, <<x1, y0>>, <<x0, y1>>>> :
      x0 \in Coords, x1 \in Coords, y0 \in Coords, y1 \in Coords }
  \cup
  { <<<<x0, y0>>, <<x1, y0>>, <<x1, y1>>, <<x0, y1>>>> :
      x0 \in Coords, x1 \in Coords, y0 \in Coords, y1 \in Coords }

\* the continuous stability scanner and handleCapture return early without
\* video dimensions; the one-shot scanner does not test them
FrameSides(kind) == IF kind = "oneshot" THEN 0 .. MaxFrame ELSE 1 .. MaxFrame

CropInputs ==
  UNION { [kind : {k}, pts : {p \in CornerSets : p[1][1] <= p[2][1] /\ p[1][2] <= p[3][2]},
           fw : FrameSides(k), fh : FrameSides(k)] :
          k \in {"zxing", "oneshot", "button"} }
  \cup [kind : {"zxing", "button"}, pts : {Quad(400, 400, 200)}, fw : {1000}, fh : {1000}]

InitCrop == SessionOff /\ fpc = "in" /\ arg \in CropInputs /\ ret = <<>>

EvalCrop ==
  /\ fpc = "in"
  /\ fpc' = "out"
  /\ ret' = ExtractBox(arg.kind, arg.pts, arg.fw, arg.fh)
  /\ UNCHANGED arg
  /\ UNCHANGED <<sessionVars, detectError, captureVars>>

NextCrop == EvalCrop

SpecCrop == InitCrop /\ [][NextCrop]_vars

\* C2: for every frame size and every set of at least 3 corner points the crop
\* box of the axis-aligned extractor satisfies 0 <= x, 0 <= y,
\* x + w <= frameWidth and y + h <= frameHeight.
C2_CropInsideFrame ==
  (fpc = "out" /\ Len(arg.pts) >= 3) =>
    /\ 0 <= ret.x
    /\ 0 <= ret.y
    /\ ret.x + ret.w <= arg.fw
    /\ ret.y + ret.h <= arg.fh

\* C2 witness: a crop whose padded extent had to be cut at the right edge
C2_Witness ==
  /\ fpc = "out"
  /\ arg.kind = "zxing"
  /\ SeqMax(PtsX(arg.pts)) >= arg.fw * Scale
  /\ SeqMin(PtsX(arg.pts)) < SeqMax(PtsX(arg.pts))
  /\ ret.x + ret.w = arg.fw

\* ---- patch sampler
\* crops of every small size, and the 220 x 220 crop of the padded 200 px symbol
CropSides == (0 .. MaxCrop) \cup {220}

PatchFractions ==
  {CENTER_FRACTION_PCT_BUTTON, CENTER_FRACTION_PCT, CENTER_FRACTION_PCT_ONESHOT}

PatchInputs ==
  [kind : {"floored", "fractional"}, w : CropSides, h : CropSides,
   pct : PatchFractions]

InitPatch == SessionOff /\ fpc = "in" /\ arg \in PatchInputs /\ ret = <<>>

EvalPatch ==
  /\ fpc = "in"
  /\ fpc' = "out"
  /\ ret' = PatchOf(arg.kind, arg.w, arg.h, arg.pct)
  /\ UNCHANGED arg
  /\ UNCHANGED <<sessionVars, detectError, captureVars>>

NextPatch == EvalPatch

SpecPatch == InitPatch /\ [][NextPatch]_vars

\* C16: for every W x H crop and fraction f the CDP patch is a square image of
\* side floor(min(W, H) * f), and the rectangle it is taken from lies inside
\* [0, W) x [0, H).
C16_PatchSizeAndPlace ==
  fpc = "out" =>
    /\ 100 * ret.canvas <= Min2(arg.w, arg.h) * arg.pct
    /\ Min2(arg.w, arg.h) * arg.pct < 100 * (ret.canvas + 1)
    /\ 0 <= ret.x
    /\ 0 <= ret.y
    /\ ret.x + ret.side <= PatchUnit * arg.w
    /\ ret.y + ret.side <= PatchUnit * arg.h

\* C16 witness: a patch of a crop that is not square, with a fraction that
\* does not divide its short side
C16_Witness ==
  /\ fpc = "out"
  /\ arg.w < arg.h
  /\ (arg.w * arg.pct) % 100 > 50
  /\ ret.canvas > 0

\* C19: the patch of the scanners that floor its side p has its top-left
\* corner at (floor(W/2) - floor(p/2), floor(H/2) - floor(p/2)); the patch of
\* the 220 x 220 crop with CENTER_FRACTION = 0.4 is 88 x 88 at (66, 66).
C19_PatchIsCentred ==
  (fpc = "out" /\ arg.kind = "floored") =>
    /\ ret.x = PatchUnit * ((arg.w \div 2) - (ret.canvas \div 2))
    /\ ret.y = PatchUnit * ((arg.h \div 2) - (ret.canvas \div 2))
    /\ ret.side = PatchUnit * ret.canvas
    /\ (arg.w = 220 /\ arg.h = 220 /\ arg.pct = CENTER_FRACTION_PCT) =>
         ret = Region(PatchUnit * 66, PatchUnit * 66, PatchUnit * 88, 88)

\* C19 witness: the patch of the 220 x 220 crop has been computed
C19_Witness ==
  /\ fpc = "out"
  /\ arg = [kind |-> "floored", w |-> 220, h |-> 220, pct |-> CENTER_FRACTION_PCT]
  /\ ret.canvas = 88

\* the padding ratio of a scanner, in percent
PadPct(kind) == IF kind = "oneshot" THEN PADDING_PCT_ONESHOT ELSE PADDING_PCT

\* C18: when no clamping to the frame is needed the crop is
\* x = floor(minX - pad), y = floor(minY - pad), w = floor(boxW + 2 pad),
\* h = floor(boxH + 2 pad), pad = PADDING_RATIO * max(boxW, boxH); the corners
\* (400,400),(600,400),(600,600),(400,600) in a 1000 x 1000 frame with ratio
\* 0.05 give x = 390, y = 390, w = 220, h = 220.
C18_UnclampedCrop ==
  (fpc = "out" /\ Len(arg.pts) >= 3) =>
    LET minX == SeqMin(PtsX(arg.pts))
        minY == SeqMin(PtsY(arg.pts))
        boxW == SeqMax(PtsX(arg.pts)) - minX
        boxH == SeqMax(PtsY(arg.pts)) - minY
        pad == PadPct(arg.kind) * Max2(boxW, boxH)
        loX == 100 * minX - pad
        loY == 100 * minY - pad
        szW == 100 * boxW + 2 * pad
        szH == 100 * boxH + 2 * pad
        unclamped ==
          /\ loX >= 0
          /\ loY >= 0
          /\ (loX \div (100 * Scale)) + (szW \div (100 * Scale)) <= arg.fw
          /\ (loY \div (100 * Scale)) + (szH \div (100 * Scale)) <= arg.fh
          /\ arg.kind = "button" => (szW >= 100 * Scale /\ szH >= 100 * Scale)
    IN /\ unclamped =>
            /\ 100 * Scale * ret.x <= loX /\ loX < 100 * Scale * (ret.x + 1)
            /\ 100 * Scale * ret.y <= loY /\ loY < 100 * Scale * (ret.y + 1)
            /\ 100 * Scale * ret.w <= szW /\ szW < 100 * Scale * (ret.w + 1)
            /\ 100 * Scale * ret.h <= szH /\ szH < 100 * Scale * (ret.h + 1)
       /\ (arg.pts = Quad(400, 400, 200) /\ arg.fw = 1000 /\ arg.fh = 1000) =>
            ret = Box(390, 390, 220, 220)

\* C18 witness: the crop of the 200 px symbol in the 1000 x 1000 frame has been
\* computed by the capture handler
C18_Witness ==
  /\ fpc = "out"
  /\ arg.kind = "button"
  /\ arg.pts = Quad(400, 400, 200)
  /\ arg.fw = 1000
  /\ ret = Box(390, 390, 220, 220)

\* C18 second case: a crop with a fractional padding that needed no clamping
C18_FractionalPadReached ==
  /\ fpc = "out"
  /\ arg.kind = "zxing"
  /\ Len(arg.pts) >= 3
  /\ ret.x > 0
  /\ ret.x + ret.w < arg.fw
  /\ (PADDING_PCT * (SeqMax(PtsX(arg.pts)) - SeqMin(PtsX(arg.pts)))) % (100 * Scale) # 0

\* ---- homography
\* twice the area of the triangle p q r, with its sign
Cross(p, q, r) == (q[1] - p[1]) * (r[2] - p[2]) - (q[2] - p[2]) * (r[1] - p[1])

\* no three of the four points on one line
NonDegenerate(pts) ==
  /\ Cross(pts[1], pts[2], pts[3]) # 0
  /\ Cross(pts[1], pts[2], pts[4]) # 0
  /\ Cross(pts[1], pts[3], pts[4]) # 0
  /\ Cross(pts[2], pts[3], pts[4]) # 0

\* corners tl, tr, br, bl of a symbol of side TargetSide: tl at the origin or
\* moved diagonally, the others each moved right and down by up to MaxSkew
\* pixels
Skews == (0 .. MaxSkew) \X (0 .. MaxSkew)

TargetQuad(a, b, c, d) ==
  << <<a[1], a[2]>>, <<TargetSide + b[1], b[2]>>,
     <<TargetSide + c[1], TargetSide + c[2]>>, <<d[1], TargetSide + d[2]>> >>

HomographyInputs ==
  [size : 2 .. MaxCanon,
   dst : {TargetQuad(a, b, c, d) : a \in {<<0, 0>>, <<MaxSkew, MaxSkew>>},
                                    b \in Skews, c \in Skews, d \in Skews}]

InitHomography == SessionOff /\ fpc = "in" /\ arg \in HomographyInputs /\ ret = <<>>

EvalHomography ==
  /\ fpc = "in"
  /\ fpc' = "out"
  /\ ret' = computeHomography(CanonicalSquare(arg.size), arg.dst)
  /\ UNCHANGED arg
  /\ UNCHANGED <<sessionVars, detectError, captureVars>>

NextHomography == EvalHomography

SpecHomography == InitHomography /\ [][NextHomography]_vars

\* |r - k| <= 1e-3 * |k| for a fraction r and an integer k
WithinRelError(r, k) == 1000 * Abs(r[1] - k * r[2]) <= Abs(k) * r[2]

\* C20: for a canonical square and 4 target points no three of which are on a
\* line, the transform computeHomography returns, applied to each corner of the
\* square with the mapping formula of the warp, gives the target point of that
\* corner within 1e-3 relative error.
C20_HomographyRoundTrip ==
  (fpc = "out" /\ NonDegenerate(arg.dst)) =>
    \A i \in 1 .. 4 :
      LET c == CanonicalSquare(arg.size)[i]
          p == WarpMap(ret, c[1], c[2])
      IN /\ p.finite
         /\ WithinRelError(p.sx, arg.dst[i][1])
         /\ WithinRelError(p.sy, arg.dst[i][2])

\* C20 witness: a transform with a perspective part has been solved for a
\* quadrilateral that is not a parallelogram
C20_Witness ==
  /\ fpc = "out"
  /\ NonDegenerate(arg.dst)
  /\ ret[7][1] # 0
  /\ ret[8][1] # 0
  /\ ret[9] = RInt(1)

\* ---- linear solver
\* target corners that coincide: all four, the first two, the two diagonals
CoincidentQuads ==
  { << <<1, 1>>, <<1, 1>>, <<1, 1>>, <<1, 1>> >>,
    << <<0, 0>>, <<0, 0>>, <<1, 1>>, <<0, 1>> >>,
    << <<0, 0>>, <<1, 0>>, <<0, 0>>, <<1, 0>> >>,
    << <<0, 0>>, <<0, 0>>, <<0, 0>>, <<0, 0>> >> }

\* a row of the system with the entry e in column col and zeros elsewhere
UnitRow(col, e) ==
  <<IF col = 1 THEN e ELSE RInt(0), IF col = 2 THEN e ELSE RInt(0),
    IF col = 3 THEN e ELSE RInt(0), IF col = 4 THEN e ELSE RInt(0),
    IF col = 5 THEN e ELSE RInt(0), IF col = 6 THEN e ELSE RInt(0),
    IF col = 7 THEN e ELSE RInt(0), IF col = 8 THEN e ELSE RInt(0),
    IF col = 9 THEN e ELSE RInt(0)>>

\* a system that is the identity with the pivot of column k replaced by e
NearIdentity(k, e) ==
  <<UnitRow(1, IF k = 1 THEN e ELSE RInt(1)), UnitRow(2, IF k = 2 THEN e ELSE RInt(1)),
    UnitRow(3, IF k = 3 THEN e ELSE RInt(1)), UnitRow(4, IF k = 4 THEN e ELSE RInt(1)),
    UnitRow(5, IF k = 5 THEN e ELSE RInt(1)), UnitRow(6, IF k = 6 THEN e ELSE RInt(1)),
    UnitRow(7, IF k = 7 THEN e ELSE RInt(1)), UnitRow(8, IF k = 8 THEN e ELSE RInt(1))>>

\* pivots just below, at and above 1e-9, of both signs, and 0
PivotValues ==
  {RInt(0), <<1, 2000000000>>, <<-1, 2000000000>>, <<1, 1000000000>>,
   <<-1, 1000000000>>, <<1, 500000000>>}

GaussInputs ==
  {HomographySystem(CanonicalSquare(i.size), i.dst) : i \in HomographyInputs}
  \cup {HomographySystem(CanonicalSquare(size), q) :
          size \in 1 .. MaxCanon, q \in CoincidentQuads}
  \cup {NearIdentity(k, e) : k \in 1 .. 8, e \in PivotValues}

InitGauss == SessionOff /\ fpc = "in" /\ arg \in GaussInputs /\ ret = <<>>

EvalGauss ==
  /\ fpc = "in"
  /\ fpc' = "out"
  /\ ret' = [h |-> gaussSolveHomography(arg), divs |-> PivotDivisors(arg, 1, 1)]
  /\ UNCHANGED arg
  /\ UNCHANGED <<sessionVars, detectError, captureVars>>

NextGauss == EvalGauss

SpecGauss == InitGauss /\ [][NextGauss]_vars

\* C21: for every 8 x 9 system, those of collinear or coincident corners
\* included, gaussSolveHomography ends, every value it divides a row by has an
\* absolute value of at least 1e-9 (a column without such a pivot is skipped:
\* there are then fewer divisions than columns), and it returns 9 coefficients
\* the last of which is 1.
C21_SolverGuardsPivot ==
  fpc = "out" =>
    /\ Len(ret.h) = 9
    /\ ret.h[9] = <<1, 1>>
    /\ Len(ret.divs) <= 8
    /\ \A k \in 1 .. Len(ret.divs) :
         Abs(ret.divs[k][1]) > (ret.divs[k][2] - 1) \div 1000000000

\* C21 witness: a system of collinear or coincident corners has been solved
\* with at least one column skipped
C21_Witness ==
  /\ fpc = "out"
  /\ arg \notin {NearIdentity(k, e) : k \in 1 .. 8, e \in PivotValues}
  /\ Len(ret.divs) < 8
  /\ Len(ret.divs) > 0

\* C21 second case: a column whose only entry is 5e-10 has been skipped
C21_TinyPivotSkipped ==
  /\ fpc = "out"
  /\ arg = NearIdentity(3, <<1, 2000000000>>)
  /\ Len(ret.divs) = 7

\* ---- warp
\* transforms that send canonical pixels left of and above the frame, and one
\* whose denominator vanishes on the column x = 1
RawHomographies ==
  { <<RInt(1), RInt(0), RInt(-1), RInt(0), RInt(1), RInt(-1), RInt(0), RInt(0), RInt(1)>>,
    <<RInt(1), RInt(0), RInt(0), RInt(0), RInt(1), RInt(0), RInt(-1), RInt(0), RInt(1)>>,
    <<RInt(0), RInt(0), RInt(0), RInt(0), RInt(0), RInt(0), RInt(-1), RInt(0), RInt(1)>>,
    <<<<1, 2>>, RInt(0), <<-1, 2>>, RInt(0), <<1, 2>>, RInt(0), RInt(0), RInt(0), RInt(1)>> }

\* transforms solved for symbols whose right corners are displaced, and for
\* coincident corners
WarpInputs ==
  [size : 2 .. MaxCanon,
   H : {computeHomography(CanonicalSquare(size), TargetQuad(<<0, 0>>, b, c, <<0, 0>>)) :
          size \in 2 .. MaxCanon, b \in Skews, c \in Skews}
       \cup {computeHomography(CanonicalSquare(2), q) : q \in CoincidentQuads}
       \cup RawHomographies,
   sw : 1 .. MaxFrame, sh : 1 .. MaxFrame]

InitWarp == SessionOff /\ fpc = "in" /\ arg \in WarpInputs /\ ret = <<>>

EvalWarp ==
  /\ fpc = "in"
  /\ fpc' = "out"
  /\ ret' = warpToCanonical(arg.H, arg.size, arg.sw, arg.sh)
  /\ UNCHANGED arg
  /\ UNCHANGED <<sessionVars, detectError, captureVars>>

NextWarp == EvalWarp

SpecWarp == InitWarp /\ [][NextWarp]_vars

\* the rounded source coordinate of canonical pixel i is outside the frame, or
\* is not a number
SourceOutside(i) ==
  LET p == WarpMap(arg.H, i % arg.size, i \div arg.size)
  IN \/ ~p.finite
     \/ JsRound(p.sx) \notin 0 .. (arg.sw - 1)
     \/ JsRound(p.sy) \notin 0 .. (arg.sh - 1)

\* C22: for every homography and every destination pixel, warpToCanonical
\* reads the source buffer only at indices inside it; a pixel whose rounded
\* source coordinate is outside the frame, or not a number, is written opaque
\* white and nothing is read for it; every output pixel has alpha 255.
C22_WarpReadsInsideFrame ==
  fpc = "out" =>
    \A i \in DOMAIN ret :
      /\ ret[i].reads \subseteq 0 .. (arg.sw * arg.sh * 4 - 1)
      /\ SourceOutside(i) => (ret[i].px = <<255, 255, 255, 255>> /\ ret[i].reads = {})
      /\ ~SourceOutside(i) => ret[i].reads # {}
      /\ ret[i].px[4] = 255

\* C22 witness: one warp with a pixel read from the frame, a pixel mapped
\* outside it and a pixel whose source coordinate is not a number
C22_Witness ==
  /\ fpc = "out"
  /\ \E i \in DOMAIN ret : ret[i].reads # {} /\ ret[i].px # <<255, 255, 255, 255>>
  /\ \E i \in DOMAIN ret : SourceOutside(i) /\ WarpMap(arg.H, i % arg.size, i \div arg.size).finite
  /\ \E i \in DOMAIN ret : ~WarpMap(arg.H, i % arg.size, i \div arg.size).finite

\* C22 second case: a pixel mapped left of or above the frame
C22_NegativeCoordinateReached ==
  /\ fpc = "out"
  /\ \E i \in DOMAIN ret :
       LET p == WarpMap(arg.H, i % arg.size, i \div arg.size)
       IN p.finite /\ (JsRound(p.sx) < 0 \/ JsRound(p.sy) < 0)

\* ---- enhancement filters
SharpenFilters ==
  {"applySharpen", "applySharpen_part_006", "applyMildSharpen_part_000",
   "applyMildSharpen_part_001"}

\* byte i of test image seed: colours spread over 0 .. 255, alpha either 255
\* everywhere or 0 on the even pixels and 128 on the odd ones
TestByte(seed, alpha, i) ==
  IF i % 4 = 3 THEN
    IF alpha = "opaque" THEN 255 ELSE IF (i \div 4) % 2 = 0 THEN 0 ELSE 128
  ELSE (seed * 89 + i * 61 + seed * i * 7) % 256

TestImage(w, h, seed, alpha) ==
  ImageData(w, h, [i \in 0 .. (w * h * 4 - 1) |-> TestByte(seed, alpha, i)])

TestImages ==
  {TestImage(w, h, seed, alpha) :
     w \in 1 .. MaxImage, h \in 1 .. MaxImage, seed \in 1 .. MaxSeed,
     alpha \in {"opaque", "mixed"}}

FilterInputs ==
  [filter : SharpenFilters, img : TestImages, params : {<<>>}]
  \cup [filter : {"applyUnsharp"}, img : TestImages, params : {<<0>>, <<30>>, <<100>>}]
  \cup [filter : {"applyBrightnessContrast"}, img : TestImages,
        params : {<<100, 0>>, <<120, 10>>, <<80, -10>>}]

InitFilter == SessionOff /\ fpc = "in" /\ arg \in FilterInputs /\ ret = <<>>

\* the filter is called on the buffer
ApplyFilter ==
  /\ fpc = "in"
  /\ fpc' = "out"
  /\ ret' = <<FilterCall(arg.filter, arg.img, arg.params)>>
  /\ UNCHANGED arg
  /\ UNCHANGED <<sessionVars, detectError, captureVars>>

\* it is called a second time on the same buffer object
ApplyFilterAgain ==
  /\ fpc = "out"
  /\ fpc' = "again"
  /\ ret' = Append(ret, FilterCall(arg.filter,
                                   ImageData(arg.img.width, arg.img.height, ret[1].data),
                                   arg.params))
  /\ UNCHANGED arg
  /\ UNCHANGED <<sessionVars, detectError, captureVars>>

NextFilter == ApplyFilter \/ ApplyFilterAgain

SpecFilter == InitFilter /\ [][NextFilter]_vars

\* byte i belongs to a pixel of the first or last row or column
OnBorder(img, i) ==
  LET pix == i \div 4
  IN \/ pix % img.width \in {0, img.width - 1}
     \/ pix \div img.width \in {0, img.height - 1}

\* C23: the fixed-kernel sharpen filter returns every border pixel (first and
\* last row, first and last column) as it was in the input, in all four
\* channels, for every image size.
C23_SharpenKeepsBorder ==
  (fpc = "out" /\ arg.filter \in SharpenFilters) =>
    \A i \in DOMAIN arg.img.data :
      OnBorder(arg.img, i) => ret[1].out.data[i] = arg.img.data[i]

\* C23 failing case: the mild sharpen of part_001 has returned a border pixel
\* that is not the input's
C23_BorderLost ==
  /\ fpc = "out"
  /\ arg.filter = "applyMildSharpen_part_001"
  /\ \E i \in DOMAIN arg.img.data :
       OnBorder(arg.img, i) /\ ret[1].out.data[i] # arg.img.data[i]

\* C24: every enhancement filter (fixed-kernel sharpen, unsharp mask,
\* brightness/contrast) returns every pixel, border pixels included, with the
\* alpha of the input.
C24_AlphaUntouched ==
  fpc = "out" =>
    \A i \in DOMAIN arg.img.data :
      i % 4 = 3 => ret[1].out.data[i] = arg.img.data[i]

\* C24 failing case: the mild sharpen of part_001 has returned a border pixel
\* with alpha 0 for an opaque input
C24_AlphaLost ==
  /\ fpc = "out"
  /\ arg.filter = "applyMildSharpen_part_001"
  /\ \E i \in DOMAIN arg.img.data :
       i % 4 = 3 /\ arg.img.data[i] = 255 /\ ret[1].out.data[i] = 0

\* C25: applyUnsharp with amount = 0 returns a buffer equal to its input in
\* every channel of every pixel, interior and border.
C25_UnsharpZeroIsIdentity ==
  (fpc = "out" /\ arg.filter = "applyUnsharp" /\ arg.params = <<0>>) =>
    ret[1].out = arg.img

\* C25 witness: amount 0 on an image with an interior pixel whose blur differs
\* from it
C25_Witness ==
  /\ fpc = "out"
  /\ arg.filter = "applyUnsharp"
  /\ arg.params = <<0>>
  /\ \E i \in DOMAIN arg.img.data :
       /\ Interior(arg.img, i)
       /\ i % 4 # 3
       /\ BoxBlur(arg.img, i) \notin {0, arg.img.data[i]}

\* C26: every enhancement filter is a pure function: the buffer it was given
\* holds after the call what it held before, and a second call on that buffer
\* returns what the first returned.
C26_FiltersArePure ==
  /\ fpc \in {"out", "again"} => ret[1].data = arg.img.data
  /\ fpc = "again" => (ret[2].data = arg.img.data /\ ret[2].out = ret[1].out)

\* C26 failing case: after applyBrightnessContrast the buffer it was given
\* holds the output, and the second call on it returns another image
C26_BufferOverwritten ==
  /\ fpc = "again"
  /\ arg.filter = "applyBrightnessContrast"
  /\ ret[1].data # arg.img.data
  /\ ret[1].data = ret[1].out.data
  /\ ret[2].out # ret[1].out

\* ---- lock
\* corners of the axis-aligned symbol from (x1, y1) to (x2, y2), in pixels
RectPts(x1, y1, x2, y2) == <<Px(x1, y1), Px(x2, y1), Px(x2, y2), Px(x1, y2)>>

\* pixel positions near the edges of a frame side and of its aim square
EdgeValues(side, other) ==
  LET boxSize == (Min2(side, other) * BOX_FRACTION_PCT) \div 100
      lo == (side - boxSize) \div 2
  IN { v \in (0 .. MaxEdge) \cup ((side - MaxEdge) .. side)
              \cup ((lo - 1) .. (lo + 1)) \cup ((lo + boxSize - 1) .. (lo + boxSize + 1)) :
         v >= 0 /\ v <= side }

\* symbols on the diagonal of the frame: the same extent on both axes, a
\* single point included
LockSymbols(vw, vh) ==
  { RectPts(e[1], e[1], e[2], e[2]) :
      e \in {f \in EdgeValues(vw, vh) \X EdgeValues(vw, vh) : f[1] <= f[2]} }

\* STABILITY_FRAMES frames: k of them show one symbol, the others another
LockWindow(p, q, k) ==
  [i \in 1 .. STABILITY_FRAMES |-> Code("t", IF i <= k THEN p ELSE q)]

LockFrames == {<<v, v>> : v \in 1 .. MaxFrame} \cup {<<VideoSide, VideoSide>>}

LockInputs ==
  UNION { [kind : {"zxing", "opencv"}, vw : {f[1]}, vh : {f[2]},
           dets : {LockWindow(p, q, k) : p \in LockSymbols(f[1], f[2]),
                                         q \in LockSymbols(f[1], f[2]),
                                         k \in 1 .. (STABILITY_FRAMES \div 2)}] :
          f \in LockFrames }

InitLock == SessionOff /\ fpc = "in" /\ arg \in LockInputs /\ ret = <<>>

EvalLock ==
  /\ fpc = "in"
  /\ fpc' = "out"
  /\ ret' = WindowSteps(arg.kind, arg.dets, 1, <<>>, arg.vw, arg.vh)
  /\ UNCHANGED arg
  /\ UNCHANGED <<sessionVars, detectError, captureVars>>

NextLock == EvalLock

SpecLock == InitLock /\ [][NextLock]_vars

\* C27: the box handed to captureQrRegion at lock, the rounded mean of a
\* window of samples each accepted with the symbol inside the aim square, has
\* 0 <= x, 0 <= y, x + w <= videoWidth and y + h <= videoHeight.
C27_LockedBoxInsideFrame ==
  (fpc = "out" /\ ret.lock) =>
    /\ ret.box \in [x : Int, y : Int, w : Int, h : Int]
    /\ 0 <= ret.box.x
    /\ 0 <= ret.box.y
    /\ ret.box.x + ret.box.w <= arg.vw
    /\ ret.box.y + ret.box.h <= arg.vh

\* C27 witness: a lock on a window of two different boxes whose mean is
\* rounded
C27_Witness ==
  /\ fpc = "out"
  /\ ret.lock
  /\ arg.dets[1].pts # arg.dets[STABILITY_FRAMES].pts
  /\ ExtractBox(arg.kind, arg.dets[1].pts, arg.vw, arg.vh).x
       # ExtractBox(arg.kind, arg.dets[STABILITY_FRAMES].pts, arg.vw, arg.vh).x
  /\ ret.box.w > 0

\* C28: the box committed at lock has w >= 1 and h >= 1.
C28_LockedBoxNotEmpty ==
  (fpc = "out" /\ ret.lock) => (ret.box.w >= 1 /\ ret.box.h >= 1)

\* the padded box of the corners of arg needs no clamping: its floored corner
\* is not negative, it ends inside the frame and, for the capture handler, it
\* is at least one pixel wide and high
NoClampNeeded ==
  LET minX == SeqMin(PtsX(arg.pts))
      minY == SeqMin(PtsY(arg.pts))
      boxW == SeqMax(PtsX(arg.pts)) - minX
      boxH == SeqMax(PtsY(arg.pts)) - minY
      pad == PadPct(arg.kind) * Max2(boxW, boxH)
  IN /\ 100 * minX - pad >= 0
     /\ 100 * minY - pad >= 0
     /\ ((100 * minX - pad) \div (100 * Scale))
          + ((100 * boxW + 2 * pad) \div (100 * Scale)) <= arg.fw
     /\ ((100 * minY - pad) \div (100 * Scale))
          + ((100 * boxH + 2 * pad) \div (100 * Scale)) <= arg.fh
     /\ arg.kind = "button" =>
          (100 * boxW + 2 * pad >= 100 * Scale /\ 100 * boxH + 2 * pad >= 100 * Scale)

\* C29: when no clamping to the frame is needed the crop rectangle contains
\* every detected corner point: x <= minX, y <= minY, maxX <= x + w and
\* maxY <= y + h.
C29_CropContainsCorners ==
  (fpc = "out" /\ Len(arg.pts) >= 3 /\ NoClampNeeded) =>
    /\ Scale * ret.x <= SeqMin(PtsX(arg.pts))
    /\ Scale * ret.y <= SeqMin(PtsY(arg.pts))
    /\ SeqMax(PtsX(arg.pts)) <= Scale * (ret.x + ret.w)
    /\ SeqMax(PtsY(arg.pts)) <= Scale * (ret.y + ret.h)

\* C29 failing case: four corners on whole pixels inside the frame, no
\* clamping, and the crop ends left of the rightmost corner
C29_CornerCutOff ==
  /\ fpc = "out"
  /\ Len(arg.pts) = 4
  /\ NoClampNeeded
  /\ SeqMax(PtsX(arg.pts)) <= Scale * arg.fw
  /\ SeqMax(PtsY(arg.pts)) <= Scale * arg.fh
  /\ SeqMax(PtsX(arg.pts)) > SeqMin(PtsX(arg.pts))
  /\ SeqMax(PtsY(arg.pts)) > SeqMin(PtsY(arg.pts))
  /\ \A i \in DOMAIN arg.pts : arg.pts[i][1] % Scale = 0 /\ arg.pts[i][2] % Scale = 0
  /\ SeqMax(PtsX(arg.pts)) > Scale * (ret.x + ret.w)

\* ---- fallback crop
\* no point, one point, two points: the extractor has no box to pad; and a
\* symbol with all its corners, which it has
FallbackInputs ==
  [kind : {"floored", "fractional"},
   pts : {<<>>, <<Px(1, 1)>>, <<Px(1, 1), Px(2, 1)>>}, fw : CropSides, fh : CropSides]
  \cup [kind : {"floored", "fractional"}, pts : {Quad(1, 1, 1)},
        fw : CropSides \ {0}, fh : CropSides \ {0}]

InitFallback == SessionOff /\ fpc = "in" /\ arg \in FallbackInputs /\ ret = <<>>

EvalFallback ==
  /\ fpc = "in"
  /\ fpc' = "out"
  /\ ret' = CropOf(arg.kind, arg.pts, arg.fw, arg.fh)
  /\ UNCHANGED arg
  /\ UNCHANGED <<sessionVars, detectError, captureVars>>

NextFallback == EvalFallback

SpecFallback == InitFallback /\ [][NextFallback]_vars

\* C17: with fewer than 3 corner points the crop is a square of side exactly
\* floor(min(vw, vh) * 0.5), and it is centred in the frame: its left and right
\* margins, and its top and bottom margins, differ by at most one pixel.
C17_FallbackSquare ==
  (fpc = "out" /\ Len(arg.pts) < 3) =>
    /\ ret.cw = ret.ch
    /\ 100 * ret.cw <= Min2(arg.fw, arg.fh) * BOX_FRACTION_PCT
    /\ Min2(arg.fw, arg.fh) * BOX_FRACTION_PCT < 100 * (ret.cw + 1)
    /\ 0 <= ret.x
    /\ 0 <= ret.y
    /\ 2 * ret.x + FineUnit * ret.cw - FineUnit * arg.fw \in -FineUnit .. FineUnit
    /\ 2 * ret.y + FineUnit * ret.ch - FineUnit * arg.fh \in -FineUnit .. FineUnit

\* C17 witness: two corner points in a frame whose short side is odd
C17_Witness ==
  /\ fpc = "out"
  /\ Len(arg.pts) = 2
  /\ Min2(arg.fw, arg.fh) % 2 = 1
  /\ arg.fw > arg.fh
  /\ ret.cw > 0

\* ---- stability tracker
\* a resting symbol, the same moved or resized about its centre, empty boxes
StabBoxes ==
  { Box(100, 100, 200, 200), Box(111, 100, 200, 200), Box(112, 100, 200, 200),
    Box(100, 109, 200, 200), Box(76, 100, 248, 200), Box(70, 100, 260, 200),
    Box(5, 5, 0, 0), Box(5, 5, 1, 0) }

Windows == UNION { [1 .. n -> StabBoxes] : n \in 0 .. STABILITY_FRAMES }

ShiftBases == { Box(100, 100, 200, 200), Box(40, 60, 31, 17) }

Shifted(b, axis, d) ==
  IF axis = "x" THEN Box(b.x + d, b.y, b.w, b.h) ELSE Box(b.x, b.y + d, b.w, b.h)

\* STABILITY_FRAMES identical boxes, the last one moved by d along one axis
ShiftWindow(b, axis, d) ==
  [i \in 1 .. STABILITY_FRAMES |->
     IF i = STABILITY_FRAMES THEN Shifted(b, axis, d) ELSE b]

Shifts == { d \in (0 - MaxShift) .. MaxShift : Abs(d) > POSITION_TOL_PX }

ShiftInputs ==
  { [kind |-> k, hist |-> ShiftWindow(b, a, d), shift |-> d] :
      k \in {"zxing", "opencv"}, b \in ShiftBases, a \in {"x", "y"}, d \in Shifts }

StabInputs ==
  { [kind |-> k, hist |-> h, shift |-> 0] : k \in {"zxing", "opencv"}, h \in Windows }
  \cup ShiftInputs

InitStab == SessionOff /\ fpc = "in" /\ arg \in StabInputs /\ ret = <<>>

EvalStable ==
  /\ fpc = "in"
  /\ fpc' = "out"
  /\ ret' = isStable(arg.kind, arg.hist)
  /\ UNCHANGED arg
  /\ UNCHANGED <<sessionVars, detectError, captureVars>>

NextStab == EvalStable

SpecStab == InitStab /\ [][NextStab]_vars

WithinTolerance(b, avg) ==
  /\ Abs((2 * b.x + b.w) - (2 * avg.x + avg.w)) <= 2 * POSITION_TOL_PX
  /\ Abs((2 * b.y + b.h) - (2 * avg.y + avg.h)) <= 2 * POSITION_TOL_PX
  /\ 100 * Abs(b.w - avg.w) <= SIZE_TOL_PCT * avg.w
  /\ 100 * Abs(b.h - avg.h) <= SIZE_TOL_PCT * avg.h

\* C6: isStable() is true exactly when the window holds STABILITY_FRAMES
\* samples and every sample is within the position and size tolerances of the
\* average box; false with fewer samples, true for identical boxes.
C6_StableIffAllWithinTolerance ==
  fpc = "out" =>
    /\ ret <=> /\ Len(arg.hist) = STABILITY_FRAMES
               /\ \A i \in DOMAIN arg.hist :
                    WithinTolerance(arg.hist[i], getAverageBox(arg.hist))
    /\ Len(arg.hist) < STABILITY_FRAMES => ret = FALSE
    /\ (/\ Len(arg.hist) = STABILITY_FRAMES
        /\ \A i \in DOMAIN arg.hist : arg.hist[i] = arg.hist[1]) => ret = TRUE

\* C6 witness: a full window of differing boxes that is judged stable
C6_Witness ==
  /\ fpc = "out"
  /\ Len(arg.hist) = STABILITY_FRAMES
  /\ \E i \in DOMAIN arg.hist : arg.hist[i] # arg.hist[1]
  /\ ret = TRUE

\* ---- post-capture processing: slider changes and image loads
MaxChanges == 2

SharpValues == {0, 30}
ContrastValues == {100, 120}
BrightnessValues == {0, 10}
BaseImages == {TestImage(3, 3, seed, "opaque") : seed \in 1 .. MaxSeed}

RemoveAt(q, i) == SubSeq(q, 1, i - 1) \o SubSeq(q, i + 1, Len(q))

\* arg is the component state the effects depend on, ret the Image objects
\* whose load is pending and the two processed images shown
InitProcess ==
  /\ SessionOff
  /\ fpc = "in"
  /\ arg = [qrBase |-> NoImage, centerBase |-> NoImage, sharpAmount |-> 30,
            contrast |-> 100, brightness |-> 0, changes |-> 0]
  /\ ret = [images |-> <<>>, qrProcessed |-> NoImage, centerProcessed |-> NoImage]

\* captureQrRegion and captureCenterRegion at lock: setQrBase, setCenterBase
CaptureBases ==
  /\ fpc = "in"
  /\ fpc' = "out"
  /\ \E q \in BaseImages, c \in BaseImages :
       /\ arg' = [arg EXCEPT !.qrBase = q, !.centerBase = c]
       /\ ret' = [ret EXCEPT !.images = @ \o RunEffects(arg', TRUE, TRUE)]
  /\ UNCHANGED <<sessionVars, detectError, captureVars>>

SetSharpAmount ==
  /\ arg.changes < MaxChanges
  /\ \E v \in SharpValues \ {arg.sharpAmount} :
       /\ arg' = [arg EXCEPT !.sharpAmount = v, !.changes = @ + 1]
       /\ ret' = [ret EXCEPT !.images = @ \o RunEffects(arg', TRUE, TRUE)]
  /\ UNCHANGED fpc
  /\ UNCHANGED <<sessionVars, detectError, captureVars>>

SetContrast ==
  /\ arg.changes < MaxChanges
  /\ \E v \in ContrastValues \ {arg.contrast} :
       /\ arg' = [arg EXCEPT !.contrast = v, !.changes = @ + 1]
       /\ ret' = [ret EXCEPT !.images = @ \o RunEffects(arg', TRUE, TRUE)]
  /\ UNCHANGED fpc
  /\ UNCHANGED <<sessionVars, detectError, captureVars>>

SetBrightness ==
  /\ arg.changes < MaxChanges
  /\ \E v \in BrightnessValues \ {arg.brightness} :
       /\ arg' = [arg EXCEPT !.brightness = v, !.changes = @ + 1]
       /\ ret' = [ret EXCEPT !.images = @ \o RunEffects(arg', TRUE, TRUE)]
  /\ UNCHANGED fpc
  /\ UNCHANGED <<sessionVars, detectError, captureVars>>

\* the load of one pending Image completes; the browser fixes no order among
\* the loads of different Image objects
ImgOnload ==
  /\ \E i \in DOMAIN ret.images :
       LET img == ret.images[i]
           out == Processed(img.url, img.sharpAmt, img.contrastVal, img.brightnessVal)
       IN ret' = [images |-> RemoveAt(ret.images, i),
                  qrProcessed |-> IF img.cb = "setQrProcessed" THEN out
                                  ELSE ret.qrProcessed,
                  centerProcessed |-> IF img.cb = "setCenterProcessed" THEN out
                                      ELSE ret.centerProcessed]
  /\ UNCHANGED <<fpc, arg>>
  /\ UNCHANGED <<sessionVars, detectError, captureVars>>

NextProcess ==
  CaptureBases \/ SetSharpAmount \/ SetContrast \/ SetBrightness \/ ImgOnload

SpecProcess == InitProcess /\ [][NextProcess]_vars

\* C30: once every pending image load has completed, each processed image
\* shown is the one computed from the current base image and the most recent
\* sharpness, contrast and brightness values.
C30_LatestParamsShown ==
  (fpc = "out" /\ ret.images = <<>>) =>
    /\ ret.qrProcessed =
         Processed(arg.qrBase, arg.sharpAmount, arg.contrast, arg.brightness)
    /\ ret.centerProcessed =
         Processed(arg.centerBase, arg.sharpAmount, arg.contrast, arg.brightness)

\* C30 failing case: one slider change, nothing pending, and the image shown
\* was computed from the values before the change
C30_StaleImageShown ==
  /\ fpc = "out"
  /\ ret.images = <<>>
  /\ arg.changes = 1
  /\ ret.qrProcessed # Processed(arg.qrBase, arg.sharpAmount, arg.contrast, arg.brightness)
  /\ ret.qrProcessed \in {Processed(arg.qrBase, s, c, b) :
                             s \in SharpValues, c \in ContrastValues, b \in BrightnessValues}

====
